---- MODULE Spec2Model ----
(***************************************************************************)
(* Model of the Maccor -> Biologic "Modulo Bat" procedure converter,       *)
(* src/beep/protocol/maccor_to_biologic_mb.py (class MaccorToBiologicMb).  *)
(*                                                                         *)
(* One behaviour of Spec is one call of maccor_ast_to_protocol_str(        *)
(* maccor_ast, col_width): Init draws the step list and the width, the     *)
(* actions are the iterations of the two loops of                          *)
(* _create_biologic_seqs_from_maccor_ast (Pass 1: sizing, Pass 2:          *)
(* generation), the checks between and after them, and the rows of the     *)
(* serializer.  A raised exception ends the call (pc = "raised").          *)
(*                                                                         *)
(* Python lists are sequences; a stack's top is its last element.          *)
(* Python's 0-based idx is kept; steps[idx + 1] is the step at idx.        *)
(* Sequence records are functions from field names to values; the model    *)
(* keeps the fields the planner and the step compiler write, except the    *)
(* converted magnitudes (value / unit pairs).  The converters of time and  *)
(* current strings are modelled on their own: one behaviour of ConvertSpec *)
(* is one call of _convert_time or _convert_amps.                          *)
(***************************************************************************)
EXTENDS Integers, Sequences, FiniteSets, TLC

VARIABLES
    call,                         \* the method called and, for a converter, its argument
    converted,                    \* the (value, unit) pair a converter returned
    steps,                        \* input: the TestStep list of the AST
    col_width,                    \* input: column width of the serializer
    pc,                           \* position in the call
    idx,                          \* loop index of the running pass / key index
    curr_seq_num,                 \* Pass 1 running sequence counter
    loop_seq_count_stack,         \* Pass 1 stack of accumulated counts
    loop_will_unroll_stack,       \* Pass 1 stack of will-unroll flags
    seq_num_by_step_num,          \* step number -> sequence number
    loop_unroll_status_by_idx,    \* idx of a Loop step -> will_unroll
    adv_cycle_ignore_status_by_idx, \* idx of an AdvCycle step -> ignore
    pre_computed_seq_count,       \* Pass 1 total (-1 until computed)
    seq_loop_stack,               \* Pass 2 stack of record lists
    loop_start_seq_num_stack,     \* Pass 2 stack of loop start indices
    step_num_goto_lower_bound,    \* Pass 2 goto lower bound
    seqs,                         \* record list returned by Pass 2
    ret,                          \* value returned by the call
    raised                        \* exception that ended the call

vars == <<call, converted, steps, col_width, pc, idx, curr_seq_num, loop_seq_count_stack,
          loop_will_unroll_stack, seq_num_by_step_num,
          loop_unroll_status_by_idx, adv_cycle_ignore_status_by_idx,
          pre_computed_seq_count, seq_loop_stack, loop_start_seq_num_stack,
          step_num_goto_lower_bound, seqs, ret, raised>>

(***************************************************************************)
(* Bounds of the explored inputs.                                          *)
(***************************************************************************)
\* longest well-nested step list, the End step not counted
MaxSteps == 5
\* largest repeat count of a Loop step
MaxLoops == 2
\* longest step list explored without the well-nesting restriction
MaxAnySteps == 3
\* longest well-nested step list in which a step has a goto
MaxGotoSteps == 4
\* most end entries / report entries on one step
MaxEntries == 4

\* the length of the long lists: their last sequence numbers have 3 digits
ManySteps == 101

\* magic number for biologic
END_SEQ_NUM == 9999

(***************************************************************************)
(* Small helpers for Python lists and dicts.                               *)
(***************************************************************************)
Last(s) == s[Len(s)]

Front(s) == SubSeq(s, 1, Len(s) - 1)

SetTop(s, v) == [s EXCEPT ![Len(s)] = v]

EmptyDict == [k \in {} |-> 0]

\* d[k] = v of a Python dict
Put(d, k, v) == (k :> v) @@ d

RECURSIVE Concat(_)
Concat(ss) == IF ss = <<>> THEN <<>> ELSE Head(ss) \o Concat(Tail(ss))

(***************************************************************************)
(* Step types.  The planner tests prefixes ("Do", "Loop") and the exact    *)
(* names "AdvCycle", "Rest", "Charge", "Dischrge" and "End".               *)
(***************************************************************************)
IsDo(step_type) == step_type \in {"Do 1", "Do 2"}

IsLoop(step_type) == step_type \in {"Loop 1", "Loop 2"}

\* Python's None, for the record list and the text before they are returned
None == <<>>

NoError == [exc |-> "", msg |-> "", step |-> 0]

Error(exc, msg, step_num) == [exc |-> exc, msg |-> msg, step |-> step_num]

(***************************************************************************)
(* The record template (self.blank_seq, loaded from the schema file, which *)
(* is configuration outside the sources): field order and default values.  *)
(***************************************************************************)
LimField(lim_num, suffix) == "lim" \o ToString(lim_num) \o suffix

RecField(rec_num, suffix) == "rec" \o ToString(rec_num) \o suffix

blank_seq_keys ==
    <<"Ns", "type", "Apply I/C", "ctrl1_val_vs", "N", "charge/discharge",
      "ctrl_seq", "loop_repeat", "lim_nb",
      "lim1_type", "lim1_comp", "lim1_action", "lim1_seq",
      "lim2_type", "lim2_comp", "lim2_action", "lim2_seq",
      "lim3_type", "lim3_comp", "lim3_action", "lim3_seq",
      "rec_nb", "rec1_type", "rec2_type", "rec3_type">>

blank_seq ==
    [key \in {blank_seq_keys[i] : i \in 1..Len(blank_seq_keys)} |->
        CASE key \in {"Ns", "ctrl_seq", "loop_repeat", "lim_nb", "rec_nb"} -> 0
          [] key \in {"lim1_seq", "lim2_seq", "lim3_seq"} -> 0
          [] key \in {"lim1_action", "lim2_action", "lim3_action"} -> "Next sequence"
          [] key \in {"lim1_type", "lim2_type", "lim3_type"} -> "Time"
          [] key \in {"lim1_comp", "lim2_comp", "lim3_comp"} -> "<"
          [] key \in {"rec1_type", "rec2_type", "rec3_type"} -> "Time"
          [] key = "Apply I/C" -> "I"
          [] key = "charge/discharge" -> "Charge"
          [] OTHER -> ""]

\* d[k] = v for every pair <<k, v>> of kvs, in order
RECURSIVE SetAll(_, _)
SetAll(d, kvs) ==
    IF kvs = <<>> THEN d
    ELSE SetAll(Put(d, Head(kvs)[1], Head(kvs)[2]), Tail(kvs))

(***************************************************************************)
(* _create_loop_seq: the synthesized Loop record.                          *)
(***************************************************************************)
\* create_loop_seq whose limit slots go back to the record itself
create_loop_seq_limits_to_itself(seq_num, seq_num_to_loop_to, num_loops) ==
    SetAll(blank_seq,
           << <<"Ns", seq_num>>,
              <<"type", "Loop">>,
              <<"loop_repeat", num_loops>>,
              <<"ctrl_seq", seq_num>>,
              <<"lim1_seq", seq_num>>,
              <<"lim2_seq", seq_num>>,
              <<"lim3_seq", seq_num>>,
              <<"Apply I/C", "C / N">> >>)

create_loop_seq(seq_num, seq_num_to_loop_to, num_loops) ==
    SetAll(blank_seq,
           << <<"Ns", seq_num>>,
              <<"type", "Loop">>,
              <<"loop_repeat", num_loops>>,
              <<"ctrl_seq", seq_num>>,
              <<"lim1_seq", seq_num + 1>>,
              <<"lim2_seq", seq_num + 1>>,
              <<"lim3_seq", seq_num + 1>>,
              <<"Apply I/C", "C / N">> >>)

(***************************************************************************)
(* _create_advance_cyle_seqs: the blank loop and the loop going back to    *)
(* it, or the exception for sequence 0 (its message is a fixed text, no    *)
(* step number is formatted into it).                                      *)
(***************************************************************************)
AdvCycleAtStartMsg == "Biologic does not support advancing cycle number at step 1/seq 0"

create_advance_cyle_seqs(seq_num) ==
    IF seq_num = 0
    THEN [ok |-> FALSE, err |-> Error("Exception", AdvCycleAtStartMsg, 0), seqs |-> <<>>]
    ELSE [ok |-> TRUE, err |-> NoError,
          seqs |-> <<create_loop_seq(seq_num, 0, 0),
                     create_loop_seq(seq_num + 1, seq_num, 1)>>]

(***************************************************************************)
(* _unroll_loop: the loop body followed by num_loops shifted copies.       *)
(***************************************************************************)
\* unrolled_goto that leaves a goto to loop_post_seq_num itself as it is
unrolled_goto_post_excluded(seq, goto_field, loop_len, i, loop_start_seq_num, loop_post_seq_num) ==
    LET goto_seq_num == seq[goto_field] IN
    IF loop_start_seq_num <= goto_seq_num /\ goto_seq_num < loop_post_seq_num
    THEN goto_seq_num + (loop_len * i)
    ELSE goto_seq_num

\* unrolled_goto that shifts every goto, whether or not it lies in the loop
unrolled_goto_shifting_all(seq, goto_field, loop_len, i, loop_start_seq_num, loop_post_seq_num) ==
    seq[goto_field] + (loop_len * i)

\* the goto of field goto_field in copy i of seq
unrolled_goto(seq, goto_field, loop_len, i, loop_start_seq_num, loop_post_seq_num) ==
    LET goto_seq_num == seq[goto_field] IN
    IF loop_start_seq_num <= goto_seq_num /\ goto_seq_num <= loop_post_seq_num
    THEN goto_seq_num + (loop_len * i)
    ELSE goto_seq_num

\* unrolled_seq that leaves Ns as it is in the original
unrolled_seq_same_ns(seq, loop_len, i, loop_start_seq_num, loop_post_seq_num) ==
    [key \in DOMAIN seq |->
        IF key \in {"lim1_seq", "lim2_seq", "lim3_seq"}
        THEN unrolled_goto(seq, key, loop_len, i, loop_start_seq_num, loop_post_seq_num)
        ELSE seq[key]]

\* copy i of seq
unrolled_seq(seq, loop_len, i, loop_start_seq_num, loop_post_seq_num) ==
    [key \in DOMAIN seq |->
        IF key = "Ns" THEN seq["Ns"] + loop_len * i
        ELSE IF key \in {"lim1_seq", "lim2_seq", "lim3_seq"}
        THEN unrolled_goto(seq, key, loop_len, i, loop_start_seq_num, loop_post_seq_num)
        ELSE seq[key]]

\* unroll_loop that shifts the body itself as well: copies 1 to
\* num_loops + 1 and no original
unroll_loop_shifting_body(loop, num_loops, loop_start_seq_num, loop_post_seq_num) ==
    Concat([i \in 1..(num_loops + 1) |->
              [j \in 1..Len(loop) |->
                  unrolled_seq(loop[j], Len(loop), i,
                               loop_start_seq_num, loop_post_seq_num)]])

unroll_loop(loop, num_loops, loop_start_seq_num, loop_post_seq_num) ==
    loop \o Concat([i \in 1..num_loops |->
                      [j \in 1..Len(loop) |->
                          unrolled_seq(loop[j], Len(loop), i,
                                       loop_start_seq_num, loop_post_seq_num)]])

(***************************************************************************)
(* _proc_step_to_seq: one step that is not control flow to one record.     *)
(* The result is [ok, err, seq]; ok = FALSE stands for the raised          *)
(* exception err.  Exception messages are abbreviated to their fixed text; *)
(* err.step is the step number formatted into the message, 0 when the      *)
(* message holds none.                                                     *)
(***************************************************************************)
Ok(seq) == [ok |-> TRUE, err |-> NoError, seq |-> seq]

Raise(exc, msg, step_num) == [ok |-> FALSE, err |-> Error(exc, msg, step_num), seq |-> blank_seq]

\* operator_map that keeps the inclusive operators
operator_map_inclusive == [oper \in {">=", "<="} |-> oper]

\* while biologic does not have >= or <= these are functionally equivalent
operator_map == [oper \in {">=", "<="} |-> IF oper = ">=" THEN ">" ELSE "<"]

\* proc_step_control that takes every step that is not a Rest step for a
\* Charge step
proc_step_control_charge_only(new_seq, test_step) ==
    IF test_step.StepType = "Rest"
    THEN Ok(SetAll(new_seq, << <<"type", "Rest">>, <<"Apply I/C", "I">>,
                               <<"N", "1.00">>, <<"charge/discharge", "Charge">> >>))
    ELSE IF test_step.StepMode \notin {"Current", "Voltage"}
    THEN Raise("Exception", "Unsupported Charge/Discharge StepMode", 0)
    ELSE Ok(SetAll(new_seq, << <<"type", IF test_step.StepMode = "Current" THEN "CC" ELSE "CV">>,
                               <<"Apply I/C", "C / N">>, <<"N", "15.00">>,
                               <<"charge/discharge", "Charge">> >>))

\* lines 170-226: the type, mode and direction fields
proc_step_control(new_seq, test_step) ==
    LET step_type == test_step.StepType
        step_mode == test_step.StepMode
        direction == IF step_type = "Charge" THEN "Charge" ELSE "Discharge"
    IN
    IF step_type = "Rest"
    THEN Ok(SetAll(new_seq, << <<"type", "Rest">>, <<"Apply I/C", "I">>,
                               <<"N", "1.00">>, <<"charge/discharge", "Charge">> >>))
    ELSE IF step_type \notin {"Charge", "Dischrge"}
    THEN Raise("Exception", "Unsupported Control StepType", 0)
    ELSE IF step_mode = "Current"
    THEN Ok(SetAll(new_seq, << <<"type", "CC">>, <<"Apply I/C", "C / N">>,
                               <<"ctrl1_val_vs", "<None>">>, <<"N", "15.00">>,
                               <<"charge/discharge", direction>> >>))
    ELSE IF step_mode = "Voltage"
    THEN Ok(SetAll(new_seq, << <<"type", "CV">>, <<"Apply I/C", "C / N">>,
                               <<"ctrl1_val_vs", "Ref">>, <<"N", "15.00">>,
                               <<"charge/discharge", direction>> >>))
    ELSE Raise("Exception", "Unsupported Charge/Discharge StepMode", 0)

\* goto_out_of_bounds without the lower bound
goto_out_of_bounds_upper_only(goto_step_num, goto_lower_bound, end_step_num) ==
    goto_step_num > end_step_num

\* lines 263-277: the goto of an end entry must stay inside the bounds
goto_out_of_bounds(goto_step_num, goto_lower_bound, end_step_num) ==
    goto_step_num < goto_lower_bound \/ goto_step_num > end_step_num

\* lines 286-326: the type and comparison fields of limit lim_num
proc_end_type(new_seq, end_entry, lim_num) ==
    LET end_type == end_entry.EndType
        end_oper == end_entry.Oper
    IN
    IF end_type = "StepTime"
    THEN IF end_oper # "="
         THEN Raise("Exception", "Unsupported StepTime operator in EndEntry", 0)
         ELSE Ok(SetAll(new_seq, << <<LimField(lim_num, "_type"), "Time">>,
                                    <<LimField(lim_num, "_comp"), ">">> >>))
    ELSE IF end_type \in {"Voltage", "Current"}
    THEN IF end_oper \notin DOMAIN operator_map
         THEN Raise("KeyError", end_oper, 0)
         ELSE Ok(SetAll(new_seq, << <<LimField(lim_num, "_comp"), operator_map[end_oper]>>,
                                    <<LimField(lim_num, "_type"), end_type>> >>))
    ELSE Raise("Exception", "Unsupported EndType", 0)

\* lines 251-326: the loop over the end entries, from entry lim_num on
RECURSIVE proc_end_entries(_, _, _, _, _, _, _)
proc_end_entries(new_seq, end_entries_list, lim_num, step_num, seq_from_step_num, goto_lower_bound, end_step_num) ==
    IF lim_num > Len(end_entries_list) THEN Ok(new_seq)
    ELSE
    LET end_entry == end_entries_list[lim_num]
        goto_step_num == end_entry.Step
    IN
    IF goto_out_of_bounds(goto_step_num, goto_lower_bound, end_step_num)
    THEN Raise("Exception", "GOTO to location that could break loop", step_num)
    ELSE IF goto_step_num \notin DOMAIN seq_from_step_num
    THEN Raise("AssertionError", "goto_step_num in seq_from_step_num", 0)
    ELSE
    LET with_goto == Put(new_seq, LimField(lim_num, "_seq"), seq_from_step_num[goto_step_num])
        with_action == IF goto_step_num # step_num + 1
                       THEN Put(with_goto, LimField(lim_num, "_action"), "Goto sequence")
                       ELSE with_goto
        typed == proc_end_type(with_action, end_entry, lim_num)
    IN
    IF ~typed.ok THEN typed
    ELSE proc_end_entries(typed.seq, end_entries_list, lim_num + 1, step_num,
                          seq_from_step_num, goto_lower_bound, end_step_num)

\* lines 349-377: the loop over the report entries, from entry rec_num on
RECURSIVE proc_report_entries(_, _, _)
proc_report_entries(new_seq, report_entries_list, rec_num) ==
    IF rec_num > Len(report_entries_list) THEN Ok(new_seq)
    ELSE
    LET report_type == report_entries_list[rec_num].ReportType IN
    IF report_type \in {"StepTime", "Voltage", "Current"}
    THEN proc_report_entries(
             Put(new_seq, RecField(rec_num, "_type"),
                 IF report_type = "StepTime" THEN "Time" ELSE report_type),
             report_entries_list, rec_num + 1)
    ELSE Raise("Exception", "Unsupported ReportType", 0)

\* too_many_limits that lets a fourth end entry through
too_many_limits_off_by_one(num_lims) == num_lims > 4

\* the most limits and the most reports of a Biologic sequence
too_many_limits(num_lims) == num_lims > 3

\* too_many_reports that lets a fourth report entry through
too_many_reports_off_by_one(num_reports) == num_reports > 4

too_many_reports(num_reports) == num_reports > 3

proc_step_to_seq(test_step, step_num, seq_from_step_num, goto_lower_bound, end_step_num) ==
    LET seq_num == seq_from_step_num[step_num]
        new_seq == SetAll(blank_seq, << <<"Ns", seq_num>>,
                                        <<"lim1_seq", seq_num + 1>>,
                                        <<"lim2_seq", seq_num + 1>>,
                                        <<"lim3_seq", seq_num + 1>> >>)
        controlled == proc_step_control(new_seq, test_step)
        end_entries_list == test_step.Ends
        num_lims == Len(end_entries_list)
        report_entries_list == test_step.Reports
        num_reports == Len(report_entries_list)
    IN
    IF ~controlled.ok THEN controlled
    ELSE IF too_many_limits(num_lims)
    THEN Raise("Exception", "Step has more than 3 EndEntries", step_num)
    ELSE
    LET limited == proc_end_entries(Put(controlled.seq, "lim_nb", num_lims),
                                    end_entries_list, 1, step_num,
                                    seq_from_step_num, goto_lower_bound, end_step_num)
    IN
    IF ~limited.ok THEN limited
    ELSE IF too_many_reports(num_reports)
    THEN Raise("Exception", "Step has more than 3 ReportyEntries", step_num)
    ELSE proc_report_entries(Put(limited.seq, "rec_nb", num_reports),
                             report_entries_list, 1)

(***************************************************************************)
(* The inputs: parsed step lists (the list of TestStep dicts, the last of  *)
(* them the End step) and column widths.  Ends and Reports are the         *)
(* normalised entry lists (an absent entry is the empty list, a single     *)
(* entry a list of one); Step and the Loop Cnt Value are the parsed ints.  *)
(***************************************************************************)
Step(step_type, step_mode, ends, reports) ==
    [StepType |-> step_type, StepMode |-> step_mode, Ends |-> ends, Reports |-> reports]

EndEntry(end_type, oper, goto_step_num) ==
    [EndType |-> end_type, Oper |-> oper, Step |-> goto_step_num]

EndStep == Step("End", "", <<>>, <<>>)

PlainRest == Step("Rest", "", <<>>, <<>>)

DoStep == Step("Do 1", "", <<>>, <<>>)

AdvCycleStep == Step("AdvCycle", "", <<>>, <<>>)

LoopStep(num_loops) ==
    Step("Loop 1", "",
         <<[EndType |-> "Loop Cnt", Oper |-> "=", Step |-> 0, Value |-> num_loops]>>, <<>>)

\* a Rest step with one timed end entry going to goto_step_num
GotoRest(goto_step_num) == Step("Rest", "", <<EndEntry("StepTime", "=", goto_step_num)>>, <<>>)

SkeletonSteps == {PlainRest, DoStep, AdvCycleStep} \cup {LoopStep(n) : n \in 0..MaxLoops}

ListsUpTo(S, n) == UNION {[1..k -> S] : k \in 0..n}

\* the number of Do steps still open after the first k steps, -1 once a
\* Loop step has come with no Do open
RECURSIVE OpenDos(_, _)
OpenDos(list, k) ==
    IF k = 0 THEN 0
    ELSE LET before == OpenDos(list, k - 1) IN
         IF before < 0 THEN -1
         ELSE IF IsDo(list[k].StepType) THEN before + 1
         ELSE IF IsLoop(list[k].StepType) THEN before - 1
         ELSE before

WellNested(list) == OpenDos(list, Len(list)) = 0

\* well-nested lists of plain steps
PlanLists == {list \in ListsUpTo(SkeletonSteps, MaxSteps) : WellNested(list)}

\* lists of plain steps, well nested or not
AnyLists == ListsUpTo(SkeletonSteps, MaxAnySteps)

\* a step with num_ends timed end entries going to goto_step_num and
\* num_reports voltage report entries
CountedRest(num_ends, num_reports, goto_step_num) ==
    Step("Rest", "",
         [k \in 1..num_ends |-> EndEntry("StepTime", "=", goto_step_num)],
         [k \in 1..num_reports |-> [ReportType |-> "Voltage"]])

\* steps of every type and mode, with at most one end entry of every kind
\* and operator and at most one report entry of every kind
KindSteps(goto_step_num) ==
    {Step(step_type, step_mode, ends, reports) :
        step_type \in {"Rest", "Charge", "Dischrge", "Pause"},
        step_mode \in {"Current", "Voltage", "Power"},
        ends \in {<<>>} \cup
                 {<<EndEntry(end_type, oper, goto_step_num)>> :
                     end_type \in {"StepTime", "Voltage", "Current", "Power"},
                     oper \in {"=", ">=", "<=", ">"}},
        reports \in {<<>>} \cup
                    {<<[ReportType |-> report_type]>> :
                        report_type \in {"StepTime", "Voltage", "Current", "Power"}}}

\* Charge and Dischrge steps in Current mode with a timed, a voltage and a
\* current end entry going to goto_step_num and a report entry of each kind
MixedSteps(goto_step_num) ==
    {Step(step_type, "Current",
          <<EndEntry("StepTime", "=", goto_step_num),
            EndEntry("Voltage", voltage_oper, goto_step_num),
            EndEntry("Current", current_oper, goto_step_num)>>,
          <<[ReportType |-> "StepTime"], [ReportType |-> "Voltage"],
            [ReportType |-> "Current"]>>) :
        step_type \in {"Charge", "Dischrge"},
        voltage_oper \in {">=", "<=", "="},
        current_oper \in {">=", "<=", "<"}}

\* one detailed step, alone or as the body of a loop; its gotos go to the
\* End step
DetailLists ==
    UNION {{<<d>>, <<DoStep, d, LoopStep(1)>>} :
           d \in KindSteps(2) \cup KindSteps(4) \cup MixedSteps(2) \cup MixedSteps(4)
                 \cup {CountedRest(e, r, g) : e \in 0..MaxEntries, r \in 0..MaxEntries,
                                              g \in {2, 4}}}

\* a loop inside a loop, with a Rest step before and after the inner loop
NestedLoops(inner_body, inner_loops, outer_loops) ==
    <<DoStep, PlainRest, DoStep>> \o inner_body \o
    <<LoopStep(inner_loops), PlainRest, LoopStep(outer_loops)>>

NestedLists ==
    {NestedLoops(inner_body, n, m) :
        inner_body \in {<<PlainRest>>, <<AdvCycleStep>>, <<AdvCycleStep, PlainRest>>},
        n \in 0..MaxLoops, m \in 0..MaxLoops}

\* the lists of Lists and those in which one Rest step has a goto, to any
\* step number from 0 to one past the End step
WithGoto(Lists) ==
    Lists \cup
    UNION {{[list EXCEPT ![p] = GotoRest(g)] :
               p \in {q \in 1..Len(list) : list[q] = PlainRest},
               g \in 0..(Len(list) + 2)} :
           list \in Lists}

GotoLists ==
    WithGoto({list \in ListsUpTo(SkeletonSteps, MaxGotoSteps) : WellNested(list)})

NestedGotoLists == WithGoto(NestedLists)

\* a long list of Rest steps
LongLists == {[k \in 1..ManySteps |-> PlainRest]}

DefaultColWidth == 20

\* the default, the length of the longest key of the template, one less,
\* a width that only the first keys fit, and one that only the first key
\* and the sequence numbers below 100 fit
ColWidths == {2, 4, 15, 16, DefaultColWidth}

InputLists ==
    PlanLists \cup AnyLists \cup GotoLists \cup NestedGotoLists \cup DetailLists \cup LongLists

Init ==
    /\ \E list \in InputLists, width \in ColWidths :
          /\ width # DefaultColWidth => list \in AnyLists \cup LongLists
          /\ steps = list \o <<EndStep>>
          /\ col_width = width
    /\ call = [fn |-> "maccor_ast_to_protocol_str"]
    /\ converted = None
    /\ pc = "pass1"
    /\ idx = 0
    /\ curr_seq_num = 0
    /\ loop_seq_count_stack = <<0>>
    /\ loop_will_unroll_stack = <<FALSE>>
    /\ seq_num_by_step_num = (Len(steps) :> END_SEQ_NUM)
    /\ loop_unroll_status_by_idx = EmptyDict
    /\ adv_cycle_ignore_status_by_idx = EmptyDict
    /\ pre_computed_seq_count = -1
    /\ seq_loop_stack = <<>>
    /\ loop_start_seq_num_stack = <<>>
    /\ step_num_goto_lower_bound = 0
    /\ seqs = None
    /\ ret = None
    /\ raised = NoError

(***************************************************************************)
(* Pass 1 (lines 472-527): one action per branch of the loop body.         *)
(***************************************************************************)
num_steps == Len(steps)

step_type_at(i) == steps[i + 1].StepType

\* is_last_step_in_loop that never sees the Loop step coming
is_last_step_in_loop_never == FALSE

is_last_step_in_loop == IsLoop(step_type_at(idx + 1))

curr_loop_will_unroll == Last(loop_will_unroll_stack)

InPass1 == pc = "pass1" /\ idx < num_steps - 1

\* Pass1Common that does not write the sequence number of the step
Pass1Common_without_map ==
    /\ seq_num_by_step_num' = seq_num_by_step_num
    /\ idx' = idx + 1
    /\ UNCHANGED <<call, converted, steps, col_width, pre_computed_seq_count, seq_loop_stack,
                   loop_start_seq_num_stack, step_num_goto_lower_bound,
                   seqs, ret>>

\* line 474, and the loop's advance
Pass1Common ==
    /\ seq_num_by_step_num' = Put(seq_num_by_step_num, idx + 1, curr_seq_num)
    /\ idx' = idx + 1
    /\ UNCHANGED <<call, converted, steps, col_width, pre_computed_seq_count, seq_loop_stack,
                   loop_start_seq_num_stack, step_num_goto_lower_bound,
                   seqs, ret>>

Pass1Do ==
    /\ InPass1
    /\ IsDo(step_type_at(idx))
    /\ loop_will_unroll_stack' = Append(SetTop(loop_will_unroll_stack, TRUE), FALSE)
    /\ loop_seq_count_stack' = Append(loop_seq_count_stack, 0)
    /\ Pass1Common
    /\ UNCHANGED <<pc, curr_seq_num, loop_unroll_status_by_idx,
                   adv_cycle_ignore_status_by_idx, raised>>

\* adv_cycle_ignored that defers the last AdvCycle step of a loop that is
\* already to be unrolled
adv_cycle_ignored_any_last(step_type, is_last, will_unroll) ==
    step_type = "AdvCycle" /\ is_last

\* the AdvCycle step is deferred to the Loop record that follows it
adv_cycle_ignored(step_type, is_last, will_unroll) ==
    step_type = "AdvCycle" /\ is_last /\ ~will_unroll

Pass1AdvCycleIgnored ==
    /\ InPass1
    /\ ~IsDo(step_type_at(idx))
    /\ adv_cycle_ignored(step_type_at(idx), is_last_step_in_loop, curr_loop_will_unroll)
    /\ adv_cycle_ignore_status_by_idx' = Put(adv_cycle_ignore_status_by_idx, idx, TRUE)
    /\ Pass1Common
    /\ UNCHANGED <<pc, curr_seq_num, loop_seq_count_stack, loop_will_unroll_stack,
                   loop_unroll_status_by_idx, raised>>

Pass1AdvCycle ==
    /\ InPass1
    /\ ~IsDo(step_type_at(idx))
    /\ ~adv_cycle_ignored(step_type_at(idx), is_last_step_in_loop, curr_loop_will_unroll)
    /\ step_type_at(idx) = "AdvCycle"
    /\ loop_will_unroll_stack' = SetTop(loop_will_unroll_stack, TRUE)
    /\ adv_cycle_ignore_status_by_idx' = Put(adv_cycle_ignore_status_by_idx, idx, FALSE)
    /\ loop_seq_count_stack' = SetTop(loop_seq_count_stack, Last(loop_seq_count_stack) + 2)
    /\ curr_seq_num' = curr_seq_num + 2
    /\ Pass1Common
    /\ UNCHANGED <<pc, loop_unroll_status_by_idx, raised>>

\* lines 507-515: the count of a closed loop and what it adds to the counter
loop_seq_count(curr_loop_seq_count, num_loops, will_unroll) ==
    IF will_unroll THEN curr_loop_seq_count * (num_loops + 1)
    ELSE curr_loop_seq_count + 1

\* loop_seq_num_added that adds the body of an unrolled loop once more
loop_seq_num_added_with_body(curr_loop_seq_count, num_loops, will_unroll) ==
    IF will_unroll THEN curr_loop_seq_count * (num_loops + 1) ELSE 1

loop_seq_num_added(curr_loop_seq_count, num_loops, will_unroll) ==
    IF will_unroll THEN curr_loop_seq_count * num_loops ELSE 1

loop_num_loops(step) == step.Ends[1].Value

\* a Loop step with a Do open: pop the context and add its count to the parent
Pass1Loop ==
    /\ InPass1
    /\ IsLoop(step_type_at(idx))
    /\ Len(loop_seq_count_stack) > 1
    /\ LET num_loops == loop_num_loops(steps[idx + 1])
           curr_loop_seq_count == Last(loop_seq_count_stack)
           popped == Front(loop_seq_count_stack)
       IN
       /\ loop_will_unroll_stack' = Front(loop_will_unroll_stack)
       /\ loop_unroll_status_by_idx' =
              Put(loop_unroll_status_by_idx, idx, curr_loop_will_unroll)
       /\ curr_seq_num' = curr_seq_num +
              loop_seq_num_added(curr_loop_seq_count, num_loops, curr_loop_will_unroll)
       /\ loop_seq_count_stack' =
              SetTop(popped, Last(popped) +
                  loop_seq_count(curr_loop_seq_count, num_loops, curr_loop_will_unroll))
    /\ Pass1Common
    /\ UNCHANGED <<pc, adv_cycle_ignore_status_by_idx, raised>>

\* a Loop step with no Do open: the stacks are popped empty and line 517
\* indexes an empty list
Pass1LoopUnmatched ==
    /\ InPass1
    /\ IsLoop(step_type_at(idx))
    /\ Len(loop_seq_count_stack) = 1
    /\ pc' = "raised"
    /\ raised' = Error("IndexError", "list index out of range", 0)
    /\ loop_seq_count_stack' = <<>>
    /\ loop_will_unroll_stack' = <<>>
    /\ loop_unroll_status_by_idx' =
           Put(loop_unroll_status_by_idx, idx, curr_loop_will_unroll)
    /\ seq_num_by_step_num' = Put(seq_num_by_step_num, idx + 1, curr_seq_num)
    /\ curr_seq_num' = curr_seq_num +
           loop_seq_num_added(Last(loop_seq_count_stack), loop_num_loops(steps[idx + 1]),
                              curr_loop_will_unroll)
    /\ UNCHANGED <<call, converted, steps, col_width, idx, adv_cycle_ignore_status_by_idx,
                   pre_computed_seq_count, seq_loop_stack, loop_start_seq_num_stack,
                   step_num_goto_lower_bound, seqs, ret>>

Pass1Other ==
    /\ InPass1
    /\ ~IsDo(step_type_at(idx))
    /\ step_type_at(idx) # "AdvCycle"
    /\ ~IsLoop(step_type_at(idx))

\* last step is not adv cycle, must unroll
Pass1LastStepInLoop ==
    /\ Pass1Other
    /\ is_last_step_in_loop
    /\ loop_will_unroll_stack' = SetTop(loop_will_unroll_stack, TRUE)
    /\ loop_seq_count_stack' = SetTop(loop_seq_count_stack, Last(loop_seq_count_stack) + 1)
    /\ curr_seq_num' = curr_seq_num + 1
    /\ Pass1Common
    /\ UNCHANGED <<pc, loop_unroll_status_by_idx, adv_cycle_ignore_status_by_idx, raised>>

\* physical step
Pass1Physical ==
    /\ Pass1Other
    /\ ~is_last_step_in_loop
    /\ loop_seq_count_stack' = SetTop(loop_seq_count_stack, Last(loop_seq_count_stack) + 1)
    /\ curr_seq_num' = curr_seq_num + 1
    /\ Pass1Common
    /\ UNCHANGED <<pc, loop_will_unroll_stack, loop_unroll_status_by_idx,
                   adv_cycle_ignore_status_by_idx, raised>>

\* lines 529-538: the checks after Pass 1 and the set-up of Pass 2
Pass1Done == pc = "pass1" /\ idx = num_steps - 1

\* Pass1End without the assertions on the depth of the stacks
Pass1End_without_depth_asserts ==
    /\ pc = "pass1" /\ idx = num_steps - 1
    /\ pre_computed_seq_count' = Last(loop_seq_count_stack)
    /\ loop_seq_count_stack' = Front(loop_seq_count_stack)
    /\ pc' = "pass2"
    /\ idx' = 0
    /\ seq_loop_stack' = << <<>> >>
    /\ loop_start_seq_num_stack' = <<>>
    /\ step_num_goto_lower_bound' = 0
    /\ UNCHANGED <<call, converted, steps, col_width, curr_seq_num, loop_will_unroll_stack,
                   seq_num_by_step_num, loop_unroll_status_by_idx,
                   adv_cycle_ignore_status_by_idx, seqs, ret, raised>>

Pass1End ==
    /\ Pass1Done
    /\ Len(loop_seq_count_stack) = 1
    /\ Len(loop_will_unroll_stack) = 1
    /\ Last(loop_seq_count_stack) = curr_seq_num
    /\ pre_computed_seq_count' = Last(loop_seq_count_stack)
    /\ loop_seq_count_stack' = <<>>
    /\ pc' = "pass2"
    /\ idx' = 0
    /\ seq_loop_stack' = << <<>> >>
    /\ loop_start_seq_num_stack' = <<>>
    /\ step_num_goto_lower_bound' = 0
    /\ UNCHANGED <<call, converted, steps, col_width, curr_seq_num, loop_will_unroll_stack,
                   seq_num_by_step_num, loop_unroll_status_by_idx,
                   adv_cycle_ignore_status_by_idx, seqs, ret, raised>>

\* an assertion of lines 529-533 fails
Pass1EndAssertFails ==
    /\ Pass1Done
    /\ \/ Len(loop_seq_count_stack) # 1
       \/ Len(loop_will_unroll_stack) # 1
       \/ Last(loop_seq_count_stack) # curr_seq_num
    /\ pc' = "raised"
    /\ raised' = Error("AssertionError", "", 0)
    /\ UNCHANGED <<call, converted, steps, col_width, idx, curr_seq_num, loop_seq_count_stack,
                   loop_will_unroll_stack, seq_num_by_step_num,
                   loop_unroll_status_by_idx, adv_cycle_ignore_status_by_idx,
                   pre_computed_seq_count, seq_loop_stack, loop_start_seq_num_stack,
                   step_num_goto_lower_bound, seqs, ret>>

(***************************************************************************)
(* Pass 2 (lines 541-595): one action per branch of the loop body.         *)
(***************************************************************************)
InPass2 == pc = "pass2" /\ idx < num_steps - 1

step_num == idx + 1

seq_num == seq_num_by_step_num[step_num]

Pass1Frame ==
    UNCHANGED <<call, converted, steps, col_width, curr_seq_num, loop_seq_count_stack,
                loop_will_unroll_stack, seq_num_by_step_num,
                loop_unroll_status_by_idx, adv_cycle_ignore_status_by_idx,
                pre_computed_seq_count>>

\* an iteration that ends normally
Pass2Continue ==
    /\ idx' = idx + 1
    /\ Pass1Frame
    /\ UNCHANGED <<pc, seqs, ret, raised>>

\* an iteration that raises err
Pass2Raise(err) ==
    /\ pc' = "raised"
    /\ raised' = err
    /\ Pass1Frame
    /\ UNCHANGED <<idx, seq_loop_stack, loop_start_seq_num_stack,
                   step_num_goto_lower_bound, seqs, ret>>

Pass2Do ==
    /\ InPass2
    /\ IsDo(step_type_at(idx))
    /\ step_num_goto_lower_bound' = step_num
    /\ seq_loop_stack' = Append(seq_loop_stack, <<>>)
    /\ loop_start_seq_num_stack' = Append(loop_start_seq_num_stack, seq_num)
    /\ Pass2Continue

\* closed_loop without the Loop record of a loop that is not unrolled
closed_loop_without_loop_seq(loop, loop_will_unoll, num_loops, loop_start_seq_num, loop_seq_num) ==
    IF loop_will_unoll
    THEN unroll_loop(loop, num_loops, loop_start_seq_num, loop_seq_num)
    ELSE loop

\* lines 560-575: the records of a closed loop
closed_loop(loop, loop_will_unoll, num_loops, loop_start_seq_num, loop_seq_num) ==
    IF loop_will_unoll
    THEN unroll_loop(loop, num_loops, loop_start_seq_num, loop_seq_num)
    ELSE Append(loop, create_loop_seq(loop_seq_num, loop_start_seq_num, num_loops))

\* Pass2Loop that leaves the goto lower bound where the loop's steps put it
Pass2Loop_keeping_bound ==
    /\ InPass2
    /\ IsLoop(step_type_at(idx))
    /\ step_num_goto_lower_bound' = step_num_goto_lower_bound
    /\ loop_start_seq_num_stack' = Front(loop_start_seq_num_stack)
    /\ LET loop_start_seq_num == Last(loop_start_seq_num_stack)
           num_loops == loop_num_loops(steps[idx + 1])
           loop_will_unoll == loop_unroll_status_by_idx[idx]
           loop == Last(seq_loop_stack)
           popped == Front(seq_loop_stack)
       IN
       seq_loop_stack' =
           SetTop(popped, Last(popped) \o
               closed_loop(loop, loop_will_unoll, num_loops, loop_start_seq_num, seq_num))
    /\ Pass2Continue

Pass2Loop ==
    /\ InPass2
    /\ IsLoop(step_type_at(idx))
    /\ step_num_goto_lower_bound' = step_num
    /\ loop_start_seq_num_stack' = Front(loop_start_seq_num_stack)
    /\ LET loop_start_seq_num == Last(loop_start_seq_num_stack)
           num_loops == loop_num_loops(steps[idx + 1])
           loop_will_unoll == loop_unroll_status_by_idx[idx]
           loop == Last(seq_loop_stack)
           popped == Front(seq_loop_stack)
       IN
       seq_loop_stack' =
           SetTop(popped, Last(popped) \o
               closed_loop(loop, loop_will_unoll, num_loops, loop_start_seq_num, seq_num))
    /\ Pass2Continue

Pass2AdvCycleIgnored ==
    /\ InPass2
    /\ step_type_at(idx) = "AdvCycle"
    /\ adv_cycle_ignore_status_by_idx[idx]
    /\ UNCHANGED <<seq_loop_stack, loop_start_seq_num_stack, step_num_goto_lower_bound>>
    /\ Pass2Continue

Pass2AdvCycle ==
    /\ InPass2
    /\ step_type_at(idx) = "AdvCycle"
    /\ ~adv_cycle_ignore_status_by_idx[idx]
    /\ create_advance_cyle_seqs(seq_num).ok
    /\ step_num_goto_lower_bound' = step_num
    /\ seq_loop_stack' =
           SetTop(seq_loop_stack, Last(seq_loop_stack) \o create_advance_cyle_seqs(seq_num).seqs)
    /\ UNCHANGED loop_start_seq_num_stack
    /\ Pass2Continue

Pass2AdvCycleRaises ==
    /\ InPass2
    /\ step_type_at(idx) = "AdvCycle"
    /\ ~adv_cycle_ignore_status_by_idx[idx]
    /\ ~create_advance_cyle_seqs(seq_num).ok
    /\ Pass2Raise(create_advance_cyle_seqs(seq_num).err)

IsPass2Step ==
    /\ InPass2
    /\ ~IsDo(step_type_at(idx))
    /\ ~IsLoop(step_type_at(idx))
    /\ step_type_at(idx) # "AdvCycle"

compiled_step ==
    proc_step_to_seq(steps[idx + 1], step_num, seq_num_by_step_num,
                     step_num_goto_lower_bound, num_steps)

Pass2Step ==
    /\ IsPass2Step
    /\ compiled_step.ok
    /\ seq_loop_stack' = SetTop(seq_loop_stack, Append(Last(seq_loop_stack), compiled_step.seq))
    /\ UNCHANGED <<loop_start_seq_num_stack, step_num_goto_lower_bound>>
    /\ Pass2Continue

Pass2StepRaises ==
    /\ IsPass2Step
    /\ ~compiled_step.ok
    /\ Pass2Raise(compiled_step.err)

\* lines 597-603: the checks after Pass 2 and the return of the records
Pass2Done == pc = "pass2" /\ idx = num_steps - 1

Pass2End ==
    /\ Pass2Done
    /\ IF Len(seq_loop_stack) = 1
          /\ Len(Last(seq_loop_stack)) = pre_computed_seq_count
       THEN /\ seqs' = Last(seq_loop_stack)
            /\ seq_loop_stack' = <<>>
            /\ pc' = "serialize"
            /\ raised' = raised
       ELSE /\ pc' = "raised"
            /\ raised' = Error("AssertionError", "", 0)
            /\ UNCHANGED <<seqs, seq_loop_stack>>
    /\ Pass1Frame
    /\ UNCHANGED <<idx, loop_start_seq_num_stack, step_num_goto_lower_bound, ret>>

(***************************************************************************)
(* maccor_ast_to_protocol_str, lines 656-680: one row per key of the       *)
(* template.  A row is the list of its cells, the key and then each        *)
(* record's value, each left-justified to col_width; the text of the row   *)
(* is their concatenation.  The static header is left out.                 *)
(***************************************************************************)
IntFields == {"Ns", "ctrl_seq", "loop_repeat", "lim_nb", "rec_nb",
              "lim1_seq", "lim2_seq", "lim3_seq"}

\* str(seq[key])
str(key, value) == IF key \in IntFields THEN ToString(value) ELSE value

RECURSIVE spaces_of(_)
spaces_of(n) == IF n <= 0 THEN "" ELSE " " \o spaces_of(n - 1)

\* the paddings up to the default width, computed once
space_table == [n \in 0..DefaultColWidth |-> spaces_of(n)]

spaces(n) == IF n \in DOMAIN space_table THEN space_table[n] ELSE spaces_of(n)

\* ljust that adds one space whatever the width
ljust_one_space(text, width) == text \o " "

\* text.ljust(width, " ")
ljust(text, width) == text \o spaces(width - Len(text))

\* too_wide that lets every text through
too_wide_never(text, width) == FALSE

too_wide(text, width) == Len(text) > width

\* lines 666-676: what record seq raises for key, NoError when nothing
cell_error(key, seq, width) ==
    IF key \notin DOMAIN seq
    THEN Error("Exception", "Could not find field in seq", 0)
    ELSE IF too_wide(str(key, seq[key]), width)
    THEN Error("Exception", "greater than column width", 0)
    ELSE NoError

\* lines 657-676: what the row of key raises, NoError when nothing
row_error(key, seq_list, width) ==
    IF too_wide(key, width)
    THEN Error("Exception", "seq key has length greater than col width", 0)
    ELSE LET bad == {k \in 1..Len(seq_list) : cell_error(key, seq_list[k], width) # NoError} IN
         IF bad = {} THEN NoError
         ELSE cell_error(key, seq_list[CHOOSE k \in bad : \A j \in bad : k <= j], width)

\* lines 664-678: the row of key
field_row(key, seq_list, width) ==
    <<ljust(key, width)>> \o
    [k \in 1..Len(seq_list) |-> ljust(str(key, seq_list[k][key]), width)]

\* lines 656-680: the rows in key order, up to the first row that raises
field_rows(keys, seq_list, width) ==
    LET bad == {k \in 1..Len(keys) : row_error(keys[k], seq_list, width) # NoError}
        first_bad == CHOOSE k \in bad : \A j \in bad : k <= j
        last_row == IF bad = {} THEN Len(keys) ELSE first_bad - 1
    IN
    [ok |-> bad = {},
     err |-> IF bad = {} THEN NoError ELSE row_error(keys[first_bad], seq_list, width),
     rows |-> [k \in 1..last_row |-> field_row(keys[k], seq_list, width)]]

serialized == field_rows(blank_seq_keys, seqs, col_width)

\* the rows are rendered and the text is returned, or a row raises
Serialize ==
    /\ pc = "serialize"
    /\ IF serialized.ok
       THEN /\ ret' = serialized.rows
            /\ pc' = "returned"
            /\ raised' = raised
       ELSE /\ pc' = "raised"
            /\ raised' = serialized.err
            /\ ret' = ret
    /\ Pass1Frame
    /\ UNCHANGED <<idx, seq_loop_stack, loop_start_seq_num_stack,
                   step_num_goto_lower_bound, seqs>>

Next ==
    \/ Pass1Do
    \/ Pass1AdvCycleIgnored
    \/ Pass1AdvCycle
    \/ Pass1Loop
    \/ Pass1LoopUnmatched
    \/ Pass1LastStepInLoop
    \/ Pass1Physical
    \/ Pass1End
    \/ Pass1EndAssertFails
    \/ Pass2Do
    \/ Pass2Loop
    \/ Pass2AdvCycleIgnored
    \/ Pass2AdvCycle
    \/ Pass2AdvCycleRaises
    \/ Pass2Step
    \/ Pass2StepRaises
    \/ Pass2End
    \/ Serialize

Spec == Init /\ [][Next]_vars

(***************************************************************************)
(* The converters (lines 44-144).  One behaviour of ConvertSpec is one     *)
(* call of _convert_time or _convert_amps: ConvertInit draws the argument, *)
(* the action returns the (value, unit) pair in converted.                 *)
(*                                                                         *)
(* _convert_time.  time_str.split(":") is the triple of its components; a  *)
(* component is <<>> for the empty string and <<n>> for the decimal string *)
(* that denotes n eighths ("1.5" is <<12>>, "0.125" is <<1>>).  Eighths    *)
(* are binary fractions, so float() and the float sums and products of the *)
(* code are exact on them; int() truncates.                                *)
(***************************************************************************)
float_eighths(part_str) == IF part_str = <<>> THEN 0 ELSE part_str[1]

int_of_eighths(eighths) == eighths \div 8

pad3(n) == IF n < 10 THEN "00" \o ToString(n) ELSE IF n < 100 THEN "0" \o ToString(n) ELSE ToString(n)

\* "{:.3f}".format(n) of a Python int n.
format_3f_int(n) == ToString(n) \o ".000"

\* "{:.3f}".format(eighths / 8): eighths have at most three decimals.
format_3f_eighths(eighths) == ToString(eighths \div 8) \o "." \o pad3((eighths % 8) * 125)

\* "{:.3f}".format(int(eighths * 1000 / 8)), the count of milliseconds,
\* written from its whole seconds and its last three digits.
format_3f_ms(eighths) == IF eighths \div 8 = 0 THEN format_3f_int((eighths % 8) * 125) ELSE ToString(eighths \div 8) \o pad3((eighths % 8) * 125) \o ".000"

\* biologic_max_time_num = 1e10 milliseconds (line 136), in seconds.
biologic_max_time_num_in_seconds == 10000000

convert_time(time_str) ==
    LET hours == float_eighths(time_str[1])
        mins == float_eighths(time_str[2])
        secs == float_eighths(time_str[3])
        total_time_sec == hours * 60 * 60 + mins * 60 + secs
    IN  IF mins = 0 /\ secs = 0 THEN <<format_3f_int(int_of_eighths(hours)), "hr">>
        ELSE IF secs = 0 THEN <<format_3f_int(int_of_eighths(hours * 60 + mins)), "mn">>
        ELSE IF secs % 8 = 0 THEN <<format_3f_int(int_of_eighths(total_time_sec)), "s">>
        ELSE IF total_time_sec < 8 * biologic_max_time_num_in_seconds THEN <<format_3f_ms(total_time_sec), "ms">>
        ELSE <<format_3f_eighths(total_time_sec), "s">>

\* The explored duration strings: blank, zero, whole and fractional
\* components, and hours that pass the millisecond ceiling.
HourStrs == {<<>>, <<0>>, <<1>>, <<8>>, <<12>>, <<2778 * 8>>}

MinStrs == {<<>>, <<0>>, <<4>>, <<8>>, <<12>>, <<240>>}

SecStrs == {<<>>, <<0>>, <<1>>, <<8>>, <<12>>, <<484>>}

TimeStrs == HourStrs \X MinStrs \X SecStrs

(***************************************************************************)
(* _get_decimal_sig_figs and _convert_amps.  A magnitude string is the     *)
(* record [int, frac, exp] of its digits before the point, its digits      *)
(* after the point and its exponent (<<>> without "e", <<n>> for "e<n>").  *)
(* A number is [digits, point]: the digits and how many of them stand      *)
(* before the decimal point, so that a product with a power of ten moves   *)
(* the point.                                                              *)
(***************************************************************************)
get_decimal_sig_figs(val_str) ==
    LET p10 == IF val_str.exp = <<>> THEN 0 ELSE val_str.exp[1]
        nonzero == {i \in 1..Len(val_str.frac) : val_str.frac[i] # 0}
        \* the length of the match of "\.([0-9]*[1-9])"
        explicit_sig_figs == IF nonzero = {} THEN 0 ELSE CHOOSE i \in nonzero : \A j \in nonzero : j <= i
    IN  explicit_sig_figs - p10

digit_at(digits, i) == IF i \in 1..Len(digits) THEN digits[i] ELSE 0

RECURSIVE increment(_)
increment(digits) == IF digits = <<>> THEN <<1>> ELSE IF Last(digits) = 9 THEN increment(Front(digits)) \o <<0>> ELSE Front(digits) \o <<Last(digits) + 1>>

\* Round to nearest, ties to even: whether the kept digits go up, given
\* the dropped digits.
rounds_up(kept, dropped) == digit_at(dropped, 1) > 5 \/ (digit_at(dropped, 1) = 5 /\ ((\E i \in 2..Len(dropped) : dropped[i] # 0) \/ digit_at(kept, Len(kept)) % 2 = 1))

round_half_even(kept, dropped) == IF rounds_up(kept, dropped) THEN increment(kept) ELSE kept

RECURSIVE digits_leq(_, _)
digits_leq(a, b) == a = <<>> \/ a[1] < b[1] \/ (a[1] = b[1] /\ digits_leq(Tail(a), Tail(b)))

\* 2^52 and 2^53 - 1: the doubles from 2^52 to 2^53 are the integers.
TwoTo52 == <<4, 5, 0, 3, 5, 9, 9, 6, 2, 7, 3, 7, 0, 4, 9, 6>>

TwoTo53Minus1 == <<9, 0, 0, 7, 1, 9, 9, 2, 5, 4, 7, 4, 0, 9, 9, 1>>

in_integer_binade(val_str) == val_str.exp = <<>> /\ Len(val_str.int) = Len(TwoTo52) /\ digits_leq(TwoTo52, val_str.int) /\ digits_leq(val_str.int, TwoTo53Minus1)

\* float(val_str).  In the binade of the integers the double is the
\* nearest integer.  Elsewhere the explored strings (ExactlyConverted)
\* keep the error of the double and of its product with the power of ten
\* below the third decimal of the formatted value, and the number is the
\* decimal value itself.
float(val_str) == IF in_integer_binade(val_str) THEN [digits |-> round_half_even(val_str.int, val_str.frac), point |-> Len(val_str.int)] ELSE [digits |-> val_str.int \o val_str.frac, point |-> Len(val_str.int) + (IF val_str.exp = <<>> THEN 0 ELSE val_str.exp[1])]

\* The product left out: the number keeps its scale.
times_power_of_ten_unscaled(num, k) == num

\* num * 1e<k>
times_power_of_ten(num, k) == [num EXCEPT !.point = @ + k]

\* num < 1e<k>
less_than_power_of_ten(num, k) == \A i \in 1..Len(num.digits) : num.digits[i] # 0 => num.point - i < k

\* The digits of num down to its third decimal, at least one of them
\* before the point, and the digits after them.
thousandths(num) == LET len == (IF num.point > 1 THEN num.point ELSE 1) + 3 IN [j \in 1..len |-> digit_at(num.digits, j + num.point + 3 - len)]

beyond_thousandths(num) == [j \in 1..(IF Len(num.digits) > num.point + 3 THEN Len(num.digits) - (num.point + 3) ELSE 0) |-> digit_at(num.digits, j + num.point + 3)]

RECURSIVE digits_str(_)
digits_str(digits) == IF digits = <<>> THEN "" ELSE ToString(digits[1]) \o digits_str(Tail(digits))

RECURSIVE int_str(_)
int_str(digits) == IF Len(digits) > 1 /\ digits[1] = 0 THEN int_str(Tail(digits)) ELSE digits_str(digits)

\* "{:.3f}".format(num)
format_3f(num) == LET digits == round_half_even(thousandths(num), beyond_thousandths(num)) IN int_str(SubSeq(digits, 1, Len(digits) - 3)) \o "." \o digits_str(SubSeq(digits, Len(digits) - 2, Len(digits)))

\* "uA" stands for the micro sign followed by "A".
convert_amps(val_str) ==
    LET decimal_sig_figs == get_decimal_sig_figs(val_str)
        num == float(val_str)
    IN  IF less_than_power_of_ten(num, -9) \/ decimal_sig_figs > 12 THEN <<format_3f(times_power_of_ten(num, 12)), "pA">>
        ELSE IF less_than_power_of_ten(num, -6) \/ decimal_sig_figs > 9 THEN <<format_3f(times_power_of_ten(num, 9)), "nA">>
        ELSE IF less_than_power_of_ten(num, -3) \/ decimal_sig_figs > 6 THEN <<format_3f(times_power_of_ten(num, 6)), "uA">>
        ELSE IF less_than_power_of_ten(num, 0) \/ decimal_sig_figs > 3 THEN <<format_3f(times_power_of_ten(num, 3)), "mA">>
        ELSE <<format_3f(num), "A">>

\* The explored magnitude strings: an integer part, zeros and a tail after
\* the point, an exponent.
MaxZeros == 14

Zeros(n) == [i \in 1..n |-> 0]

AmpInts == {<<0>>, <<1>>, <<1, 2>>}

AmpFracs == {<<>>} \cup {Zeros(k) \o tail : k \in 0..MaxZeros, tail \in {<<1>>, <<1, 2>>, <<5, 0>>, <<1, 2, 3, 4>>}}

AmpExps == {<<>>, <<-3>>, <<3>>}

unit_exponent(unit) == CASE unit = "A" -> 0 [] unit = "mA" -> 3 [] unit = "uA" -> 6 [] unit = "nA" -> 9 [] unit = "pA" -> 12

\* The number the converter formats: the double in the unit it returns.
scaled(val_str) == times_power_of_ten(float(val_str), unit_exponent(convert_amps(val_str)[2]))

significant_digits(digits) == LET nonzero == {i \in 1..Len(digits) : digits[i] # 0} IN IF nonzero = {} THEN 0 ELSE 1 + (CHOOSE i \in nonzero : \A j \in nonzero : j <= i) - (CHOOSE i \in nonzero : \A j \in nonzero : i <= j)

\* The strings on which the doubles of the code agree with the decimal
\* value to the third decimal of the result: at most 15 significant
\* digits in the string and in the formatted value, and the dropped digits
\* not exactly one half of the third decimal.
ExactlyConverted(val_str) ==
    /\ significant_digits(val_str.int \o val_str.frac) <= 15
    /\ Len(convert_amps(val_str)[1]) <= 16
    /\ LET dropped == beyond_thousandths(scaled(val_str)) IN ~(digit_at(dropped, 1) = 5 /\ \A i \in 2..Len(dropped) : dropped[i] = 0)

SmallAmpStrs == {val_str \in [int : AmpInts, frac : AmpFracs, exp : AmpExps] : ExactlyConverted(val_str)}

\* Strings from 2^52 to 2^53 with at most three decimals.
BigAmpStrs == [int : {TwoTo52, increment(TwoTo52), TwoTo53Minus1}, frac : {<<>>, <<5>>, <<2, 5>>, <<7, 5>>, <<5, 0, 1>>}, exp : {<<>>}]

AmpStrs == SmallAmpStrs \cup BigAmpStrs

ConvertInit ==
    /\ call \in [fn : {"_convert_time"}, arg : TimeStrs] \cup [fn : {"_convert_amps"}, arg : AmpStrs]
    /\ converted = None
    /\ steps = <<>>
    /\ col_width = DefaultColWidth
    /\ pc = "convert"
    /\ idx = 0
    /\ curr_seq_num = 0
    /\ loop_seq_count_stack = <<0>>
    /\ loop_will_unroll_stack = <<FALSE>>
    /\ seq_num_by_step_num = EmptyDict
    /\ loop_unroll_status_by_idx = EmptyDict
    /\ adv_cycle_ignore_status_by_idx = EmptyDict
    /\ pre_computed_seq_count = -1
    /\ seq_loop_stack = <<>>
    /\ loop_start_seq_num_stack = <<>>
    /\ step_num_goto_lower_bound = 0
    /\ seqs = None
    /\ ret = None
    /\ raised = NoError

ConvertFrame == UNCHANGED <<call, steps, col_width, idx, curr_seq_num, loop_seq_count_stack, loop_will_unroll_stack, seq_num_by_step_num, loop_unroll_status_by_idx, adv_cycle_ignore_status_by_idx, pre_computed_seq_count, seq_loop_stack, loop_start_seq_num_stack, step_num_goto_lower_bound, seqs, ret, raised>>

ConvertTime ==
    /\ pc = "convert"
    /\ call.fn = "_convert_time"
    /\ converted' = convert_time(call.arg)
    /\ pc' = "returned"
    /\ ConvertFrame

ConvertAmps ==
    /\ pc = "convert"
    /\ call.fn = "_convert_amps"
    /\ converted' = convert_amps(call.arg)
    /\ pc' = "returned"
    /\ ConvertFrame

ConvertNext ==
    \/ ConvertTime
    \/ ConvertAmps

ConvertSpec == ConvertInit /\ [][ConvertNext]_vars

(***************************************************************************)
(* Properties.                                                             *)
(***************************************************************************)
SerializerMsgs == {"Could not find field in seq", "greater than column width",
                   "seq key has length greater than col width"}

\* _create_biologic_seqs_from_maccor_ast has returned its record list
SeqsReturned ==
    \/ pc \in {"serialize", "returned"}
    \/ pc = "raised" /\ raised.msg \in SerializerMsgs

\* the call has ended
Ended == pc \in {"returned", "raised"}

\* the will_unroll decisions taken for the Loop steps
UnrollDecisions == {loop_unroll_status_by_idx[i] : i \in DOMAIN loop_unroll_status_by_idx}

\* the number of unrolled loops
NumUnrolled == Cardinality({i \in DOMAIN loop_unroll_status_by_idx : loop_unroll_status_by_idx[i]})

\* C1: when Pass 2 has processed every step, it has produced exactly the
\* number of records Pass 1 counted (on one list, no loop left open), and
\* the list it returns has that length.
C1_SizingEqualsGeneration ==
    /\ Pass2Done =>
          /\ Len(seq_loop_stack) = 1
          /\ Len(seq_loop_stack[1]) = pre_computed_seq_count
          /\ pre_computed_seq_count = curr_seq_num
    /\ SeqsReturned => Len(seqs) = pre_computed_seq_count

\* a conversion with a loop that is unrolled and a loop that is not
C1_Witness ==
    /\ pc = "serialize"
    /\ UnrollDecisions = {TRUE, FALSE}
    /\ Len(seqs) >= 4

\* C2: the record at position i (0-based) of the returned list has Ns = i.
C2_NsContiguous ==
    SeqsReturned => \A i \in 1..Len(seqs) : seqs[i]["Ns"] = i - 1

\* a returned list with the copies of two nested unrolled loops
C2_Witness ==
    /\ pc = "serialize"
    /\ NumUnrolled >= 2
    /\ Len(seqs) >= 6
    /\ \E i \in 1..Len(seqs) : seqs[i]["type"] = "Loop"

LimSeqFields == {"lim1_seq", "lim2_seq", "lim3_seq"}

\* this step of Pass 2 closes a loop by unrolling it
UnrollStep ==
    /\ InPass2
    /\ IsLoop(step_type_at(idx))
    /\ loop_unroll_status_by_idx[idx]
    /\ idx' = idx + 1

\* C3: unrolling a body of L records with repeat count N puts L*(N+1)
\* records on the parent list: the L originals, then copies 1..N; in copy i a
\* limit goto whose original value lies in [loop_start_seq, loop_end_seq]
\* (loop_end_seq being the sequence number of the Loop step, the
\* loop_post_seq_num handed to _unroll_loop) is the original plus i*L, and
\* any other limit goto is the original.  With N = 0 the records are the body.
C3_UnrollShiftsGotos ==
    [][UnrollStep =>
        LET loop == Last(seq_loop_stack)
            L == Len(loop)
            N == loop_num_loops(steps[idx + 1])
            loop_start_seq == Last(loop_start_seq_num_stack)
            loop_end_seq == seq_num
            parent == Last(Front(seq_loop_stack))
            after == Last(seq_loop_stack')
            unrolled == SubSeq(after, Len(parent) + 1, Len(after))
        IN
        /\ Len(seq_loop_stack') = Len(seq_loop_stack) - 1
        /\ SubSeq(after, 1, Len(parent)) = parent
        /\ Len(unrolled) = L * (N + 1)
        /\ SubSeq(unrolled, 1, L) = loop
        /\ \A i \in 1..N : \A j \in 1..L : \A f \in LimSeqFields :
              unrolled[i * L + j][f] =
                  IF loop_start_seq <= loop[j][f] /\ loop[j][f] <= loop_end_seq
                  THEN loop[j][f] + i * L
                  ELSE loop[j][f]
    ]_vars

\* a loop has just been unrolled twice; its body has a goto to the End step
\* (outside the range, kept in the copies) and gotos inside the range
C3_Witness ==
    /\ pc = "pass2"
    /\ idx >= 1
    /\ IsLoop(step_type_at(idx - 1))
    /\ loop_unroll_status_by_idx[idx - 1]
    /\ loop_num_loops(steps[idx]) = 2
    /\ LET top == Last(seq_loop_stack) IN
       \E j \in 1..Len(top) : \E k \in 1..Len(top) :
          /\ j < k
          /\ top[j]["lim1_seq"] = END_SEQ_NUM
          /\ top[k]["lim1_seq"] = END_SEQ_NUM
          /\ top[k]["lim2_seq"] = top[k]["Ns"] + 1
          /\ top[k]["Ns"] > top[j]["Ns"]

\* every record generated so far
AllRecords ==
    {seqs[i] : i \in 1..Len(seqs)} \cup
    UNION {{seq_loop_stack[l][i] : i \in 1..Len(seq_loop_stack[l])} :
           l \in 1..Len(seq_loop_stack)}

\* a step that goes to the step compiler
IsPhysical(step) ==
    ~IsDo(step.StepType) /\ ~IsLoop(step.StepType) /\ step.StepType # "AdvCycle"

\* the step numbers of the steps before the End step
StepNums == 1..(num_steps - 1)

\* the call fails: it returns no record list and no text
NothingReturned ==
    /\ ~SeqsReturned
    /\ seqs = None
    /\ ret = None
    /\ Ended => pc = "raised"

\* C4: no record has more than 3 limits or more than 3 reports, the record
\* compiled from a step counts all of the step's end entries and report
\* entries, and a step list with a physical step of more than 3 end entries
\* or more than 3 report entries returns nothing.
C4_AtMostThreeLimitsAndReports ==
    /\ \A r \in AllRecords : r["lim_nb"] <= 3 /\ r["rec_nb"] <= 3
    /\ (pc = "pass2" /\ idx >= 1 /\ IsPhysical(steps[idx])) =>
          LET r == Last(Last(seq_loop_stack)) IN
          /\ r["lim_nb"] = Len(steps[idx].Ends)
          /\ r["rec_nb"] = Len(steps[idx].Reports)
    /\ (\E k \in StepNums :
          /\ IsPhysical(steps[k])
          /\ Len(steps[k].Ends) > 3 \/ Len(steps[k].Reports) > 3)
       => NothingReturned

\* a step with 3 end entries and 4 report entries has raised for its reports
C4_Witness ==
    /\ pc = "raised"
    /\ raised.msg = "Step has more than 3 ReportyEntries"
    /\ \E k \in StepNums :
          /\ raised.step = k
          /\ Len(steps[k].Ends) = 3
          /\ Len(steps[k].Reports) = 4

\* the step numbers of the Do steps open at step k, innermost last
RECURSIVE OpenDoSteps(_)
OpenDoSteps(k) ==
    IF k = 0 THEN <<>>
    ELSE LET before == OpenDoSteps(k - 1) IN
         IF IsDo(steps[k].StepType) THEN Append(before, k)
         ELSE IF IsLoop(steps[k].StepType) /\ before # <<>> THEN Front(before)
         ELSE before

GotoMsg == "GOTO to location that could break loop"

\* end entry e of step k goes below the innermost Do open at step k or past
\* the End step
GotoOutOfLoop(k, e) ==
    LET goto == steps[k].Ends[e].Step
        open == OpenDoSteps(k)
    IN
    \/ open # <<>> /\ goto < Last(open)
    \/ goto > num_steps

\* C5: a step list in which an end entry of a physical step goes below the
\* innermost Do open at that step, or past the End step, returns nothing;
\* when Pass 2 reaches such a step, a Rest step whose first end entry it is,
\* the exception is the goto exception and names the step.
C5_GotoOutOfLoopFails ==
    /\ (\E k \in StepNums :
          /\ IsPhysical(steps[k])
          /\ \E e \in 1..Len(steps[k].Ends) : GotoOutOfLoop(k, e))
       => NothingReturned
    /\ \A k \in StepNums :
          (/\ pc = "raised"
           /\ pre_computed_seq_count >= 0
           /\ idx = k - 1
           /\ steps[k].StepType = "Rest"
           /\ Len(steps[k].Ends) \in 1..3
           /\ GotoOutOfLoop(k, 1))
          => raised = Error("Exception", GotoMsg, k)

\* a step inside a loop inside a loop has raised for a goto into the outer
\* loop, below the Do of the inner loop
C5_Witness ==
    /\ pc = "raised"
    /\ raised.msg = GotoMsg
    /\ \E k \in StepNums :
          /\ raised.step = k
          /\ Len(OpenDoSteps(k)) = 2
          /\ steps[k].Ends[1].Step >= OpenDoSteps(k)[1]
          /\ steps[k].Ends[1].Step < OpenDoSteps(k)[2]

\* the positions of the Loop records of the returned list
LoopRecords == {i \in 1..Len(seqs) : seqs[i]["type"] = "Loop"}

\* C6: in a returned list every Loop record has 0 <= ctrl_seq < Ns.
C6_LoopCtrlSeqBelowNs ==
    SeqsReturned =>
        \A i \in LoopRecords :
            0 <= seqs[i]["ctrl_seq"] /\ seqs[i]["ctrl_seq"] < seqs[i]["Ns"]

\* Pass 2 has just closed, without unrolling, the loop of Loop step idx
NativeLoopClosed ==
    /\ pc = "pass2"
    /\ idx >= 1
    /\ IsLoop(steps[idx].StepType)
    /\ ~loop_unroll_status_by_idx[idx - 1]

\* C7: when a loop is closed without unrolling, one Loop record follows the
\* body records (it is the last record, at the sequence number of the Loop
\* step, and the records from the loop's start on are the body and it); its
\* repeat count is the Loop Cnt value and its ctrl_seq is the sequence
\* number mapped to the loop's Do step.
C7_NativeLoopRecord ==
    NativeLoopClosed =>
        LET top == Last(seq_loop_stack)
            loop_seq == Last(top)
            do_step_num == Last(OpenDoSteps(idx - 1))
            loop_start_seq == seq_num_by_step_num[do_step_num]
            in_loop == {i \in 1..Len(top) : top[i]["Ns"] >= loop_start_seq}
        IN
        /\ loop_seq["type"] = "Loop"
        /\ loop_seq["Ns"] = seq_num_by_step_num[idx]
        /\ Cardinality(in_loop) = seq_num_by_step_num[idx] - loop_start_seq + 1
        /\ \A i \in in_loop : i # Len(top) => top[i]["Ns"] < loop_seq["Ns"]
        /\ loop_seq["loop_repeat"] = loop_num_loops(steps[idx])
        /\ loop_seq["ctrl_seq"] = loop_start_seq

\* Pass 2 has just emitted the records of the AdvCycle step idx
AdvCycleEmitted ==
    /\ pc = "pass2"
    /\ idx >= 1
    /\ steps[idx].StepType = "AdvCycle"
    /\ ~adv_cycle_ignore_status_by_idx[idx - 1]

\* C8: an AdvCycle step that is not deferred, mapped to s >= 1, emits two
\* Loop records: at s with repeat count 0 and ctrl_seq s, and at s + 1 with
\* repeat count 1 and ctrl_seq s.
C8_AdvCyclePair ==
    AdvCycleEmitted =>
        LET top == Last(seq_loop_stack)
            s == seq_num_by_step_num[idx]
            blank_loop_seq == top[Len(top) - 1]
            adv_cycle_loop_seq == top[Len(top)]
        IN
        /\ s >= 1
        /\ Len(top) >= 2
        /\ blank_loop_seq["type"] = "Loop" /\ adv_cycle_loop_seq["type"] = "Loop"
        /\ blank_loop_seq["Ns"] = s /\ adv_cycle_loop_seq["Ns"] = s + 1
        /\ blank_loop_seq["loop_repeat"] = 0 /\ adv_cycle_loop_seq["loop_repeat"] = 1
        /\ blank_loop_seq["ctrl_seq"] = s
        /\ adv_cycle_loop_seq["ctrl_seq"] = s

\* C9: a step list in which an AdvCycle step is mapped to sequence 0 returns
\* nothing, whether the AdvCycle step is deferred or not.
C9_AdvCycleAtStartFails ==
    (\E k \in StepNums \cap DOMAIN seq_num_by_step_num :
        steps[k].StepType = "AdvCycle" /\ seq_num_by_step_num[k] = 0)
    => NothingReturned

\* step k raises wherever it stands in the list
StepAlwaysRaises(k) ==
    LET step == steps[k] IN
    /\ IsPhysical(step)
    /\ \/ step.StepType \notin {"Rest", "Charge", "Dischrge"}
       \/ step.StepType # "Rest" /\ step.StepMode \notin {"Current", "Voltage"}
       \/ Len(step.Ends) > 3
       \/ Len(step.Reports) > 3
       \/ \E e \in 1..Len(step.Ends) :
             \/ step.Ends[e].Step > num_steps
             \/ step.Ends[e].EndType \notin {"StepTime", "Voltage", "Current"}
             \/ step.Ends[e].EndType = "StepTime" /\ step.Ends[e].Oper # "="
             \/ step.Ends[e].EndType # "StepTime" /\ step.Ends[e].Oper \notin {">=", "<="}
       \/ \E r \in 1..Len(step.Reports) :
             step.Reports[r].ReportType \notin {"StepTime", "Voltage", "Current"}

\* a key of the template or a rendered value is wider than the column
SomethingTooWide ==
    \E k \in 1..Len(blank_seq_keys) :
        \/ Len(blank_seq_keys[k]) > col_width
        \/ \E i \in 1..Len(seqs) :
              Len(str(blank_seq_keys[k], seqs[i][blank_seq_keys[k]])) > col_width

\* C10: a call that raises returns no text, and no record list unless it is
\* the serializer that raised; a step list with a step that raises returns
\* nothing, wherever the step stands; a record list with a key or a value
\* wider than the column returns no text.
C10_NoPartialSuccess ==
    /\ pc = "raised" =>
          /\ raised # NoError
          /\ ret = None
          /\ raised.msg \notin SerializerMsgs => seqs = None
    /\ raised # NoError => pc = "raised"
    /\ (\E k \in StepNums : StepAlwaysRaises(k)) => NothingReturned
    /\ (SeqsReturned /\ SomethingTooWide) => (ret = None /\ pc # "returned")

\* the serializer has raised for the third key, after the rows of two keys
\* and of at least two records
C10_Witness ==
    /\ pc = "raised"
    /\ raised.msg \in SerializerMsgs
    /\ Len(seqs) >= 2
    /\ ~too_wide(blank_seq_keys[1], col_width)
    /\ ~too_wide(blank_seq_keys[2], col_width)

\* the conversion of step idx + 1 has raised one of its exceptions in Pass 2
StepConversionRaised ==
    /\ pc = "raised"
    /\ pre_computed_seq_count >= 0
    /\ idx < num_steps - 1
    /\ raised.exc # "AssertionError"

\* C11: the exception raised by the conversion of a step (unsupported step
\* type, mode, end entry or report entry, too many entries, goto out of
\* bounds, AdvCycle at sequence 0) carries the number of that step.
C11_ErrorCarriesStepNumber ==
    StepConversionRaised => raised.step = idx + 1

\* Pass 2 has just compiled the physical step idx into a record
StepCompiled ==
    /\ pc = "pass2"
    /\ idx >= 1
    /\ IsPhysical(steps[idx])

\* C12: in the record compiled from a step, the goto of limit k is the
\* sequence number mapped to the step that end entry k goes to, and when it
\* is not Ns + 1 the action of limit k is "Goto sequence"; so it is for a
\* goto of the last step to the End step, mapped to 9999.
C12_GotoIndexAndAction ==
    StepCompiled =>
        LET new_seq == Last(Last(seq_loop_stack))
            ends == steps[idx].Ends
        IN
        \A k \in 1..Len(ends) :
            /\ new_seq[LimField(k, "_seq")] = seq_num_by_step_num[ends[k].Step]
            /\ new_seq[LimField(k, "_seq")] # new_seq["Ns"] + 1
                  => new_seq[LimField(k, "_action")] = "Goto sequence"

\* the step compiler has a record type for the step
SupportedControl(step) ==
    \/ step.StepType = "Rest"
    \/ step.StepType \in {"Charge", "Dischrge"} /\ step.StepMode \in {"Current", "Voltage"}

\* C13: a step handed to the step compiler either raises and adds no record
\* or adds exactly one record, at the step's sequence number: type Rest with
\* direction Charge for a Rest step, type CC in Current mode and CV in
\* Voltage mode with direction Charge for a Charge step and Discharge for a
\* Dischrge step.  A step of any other type, or a Charge or Dischrge step of
\* any other mode, raises, and a step list that holds one returns nothing.
C13_OneRecordPerStepByType ==
    /\ [][IsPass2Step =>
            LET step == steps[idx + 1]
                top == Last(seq_loop_stack)
                after == Last(seq_loop_stack')
                new_seq == Last(after)
            IN
            /\ pc' \in {"pass2", "raised"}
            /\ ~SupportedControl(step) => pc' = "raised"
            /\ pc' = "raised" => seq_loop_stack' = seq_loop_stack
            /\ pc' = "pass2" =>
                  /\ Len(seq_loop_stack') = Len(seq_loop_stack)
                  /\ Len(after) = Len(top) + 1
                  /\ after = Append(top, new_seq)
                  /\ new_seq["Ns"] = seq_num
                  /\ new_seq["type"] =
                        IF step.StepType = "Rest" THEN "Rest"
                        ELSE IF step.StepMode = "Current" THEN "CC" ELSE "CV"
                  /\ new_seq["charge/discharge"] =
                        IF step.StepType = "Dischrge" THEN "Discharge" ELSE "Charge"]_vars
    /\ []((\E k \in StepNums : IsPhysical(steps[k]) /\ ~SupportedControl(steps[k]))
             => NothingReturned)

\* a Dischrge step in Voltage mode has been compiled
C13_Witness ==
    /\ StepCompiled
    /\ steps[idx].StepType = "Dischrge"
    /\ steps[idx].StepMode = "Voltage"
    /\ Last(Last(seq_loop_stack))["type"] = "CV"
    /\ Last(Last(seq_loop_stack))["charge/discharge"] = "Discharge"

\* the step compiler has a limit for the end entry
SupportedEnd(end_entry) ==
    \/ end_entry.EndType = "StepTime" /\ end_entry.Oper = "="
    \/ end_entry.EndType \in {"Voltage", "Current"} /\ end_entry.Oper \in {">=", "<="}

\* C14: the limits a record counts compare with ">" or "<" only; in the
\* record compiled from a step every end entry is a StepTime entry with "=",
\* emitted as a Time limit with ">", or a Voltage or Current entry with ">="
\* or "<=", emitted as a limit of that type with ">" or "<"; a step list
\* holding a physical step with any other end entry returns nothing.
C14_LimitComparators ==
    /\ \A seq \in AllRecords :
          \A k \in 1..seq["lim_nb"] : seq[LimField(k, "_comp")] \in {">", "<"}
    /\ StepCompiled =>
          LET new_seq == Last(Last(seq_loop_stack))
              ends == steps[idx].Ends
          IN
          \A k \in 1..Len(ends) :
              /\ SupportedEnd(ends[k])
              /\ new_seq[LimField(k, "_type")] =
                    IF ends[k].EndType = "StepTime" THEN "Time" ELSE ends[k].EndType
              /\ new_seq[LimField(k, "_comp")] =
                    IF ends[k].EndType = "StepTime" \/ ends[k].Oper = ">=" THEN ">" ELSE "<"
    /\ (\E k \in StepNums :
           /\ IsPhysical(steps[k])
           /\ \E e \in 1..Len(steps[k].Ends) : ~SupportedEnd(steps[k].Ends[e]))
       => NothingReturned

\* a step with a timed, a ">=" voltage and a "<=" current end entry has been
\* compiled
C14_Witness ==
    /\ StepCompiled
    /\ Len(steps[idx].Ends) = 3
    /\ steps[idx].Ends[2].Oper = ">="
    /\ steps[idx].Ends[3].Oper = "<="
    /\ Last(Last(seq_loop_stack))["lim1_comp"] = ">"
    /\ Last(Last(seq_loop_stack))["lim2_comp"] = ">"
    /\ Last(Last(seq_loop_stack))["lim3_comp"] = "<"

\* the text of a row: its cells one after the other
RECURSIVE row_text(_)
row_text(row) == IF row = <<>> THEN "" ELSE Head(row) \o row_text(Tail(row))

\* cell is text followed by spaces up to width characters
PaddedTo(cell, text, width) ==
    /\ Len(cell) = width
    /\ Len(text) <= width
    /\ cell = text \o spaces_of(width - Len(text))

\* C15: the returned text has one row per key of the template, in the
\* template's order; the row of a key is the key and then the value of each
\* record for the key, in record order, each followed by spaces up to
\* col_width characters, so the row has col_width * (n + 1) characters for
\* n records.
C15_RowsPerField ==
    pc = "returned" =>
        /\ Len(ret) = Len(blank_seq_keys)
        /\ \A k \in 1..Len(ret) :
              /\ Len(ret[k]) = Len(seqs) + 1
              /\ PaddedTo(ret[k][1], blank_seq_keys[k], col_width)
              /\ \A i \in 1..Len(seqs) :
                    PaddedTo(ret[k][i + 1],
                             str(blank_seq_keys[k], seqs[i][blank_seq_keys[k]]), col_width)
              /\ Len(row_text(ret[k])) = col_width * (Len(seqs) + 1)

\* the rows of three records or more have been returned for a width that
\* the longest key just fits
C15_Witness ==
    /\ pc = "returned"
    /\ Len(seqs) >= 3
    /\ col_width < DefaultColWidth
    /\ \E k \in 1..Len(blank_seq_keys) : Len(blank_seq_keys[k]) = col_width

\* a key of the template is longer than the column width
KeyTooWide == \E k \in 1..Len(blank_seq_keys) : Len(blank_seq_keys[k]) > col_width

\* a rendered value of a record is longer than the column width
ValueTooWide ==
    \E k \in 1..Len(blank_seq_keys), i \in 1..Len(seqs) :
        /\ blank_seq_keys[k] \in DOMAIN seqs[i]
        /\ Len(str(blank_seq_keys[k], seqs[i][blank_seq_keys[k]])) > col_width

\* a record has no value for a key of the template
FieldMissing ==
    \E k \in 1..Len(blank_seq_keys), i \in 1..Len(seqs) :
        blank_seq_keys[k] \notin DOMAIN seqs[i]

\* C16: when a key of the template or a rendered value is longer than the
\* column width, or a record lacks a key of the template, the serializer
\* raises and no text is returned.
C16_SerializationFails ==
    (SeqsReturned /\ (KeyTooWide \/ ValueTooWide \/ FieldMissing)) =>
        /\ pc # "returned"
        /\ ret = None
        /\ Ended => (pc = "raised" /\ raised.msg \in SerializerMsgs)

\* the serializer has raised for a value wider than the column, in a row
\* whose key fits
C16_Witness ==
    /\ pc = "raised"
    /\ raised.msg = "greater than column width"
    /\ ValueTooWide
    /\ ret = None

\* C17: text is returned only if the column width is greater than the
\* length of every key of the template and of every rendered value; a key or
\* a value exactly as long as the column width makes the serializer raise.
C17_EqualWidthFails ==
    pc = "returned" =>
        /\ \A k \in 1..Len(blank_seq_keys) : Len(blank_seq_keys[k]) < col_width
        /\ \A k \in 1..Len(blank_seq_keys), i \in 1..Len(seqs) :
              Len(str(blank_seq_keys[k], seqs[i][blank_seq_keys[k]])) < col_width

\* C18: when a loop is unrolled, a Loop record of the body has in copy i a
\* ctrl_seq that is the original plus i * L when the original lies in
\* [loop_start_seq, loop_end_seq], as the limit gotos have.
C18_UnrollShiftsCtrlSeq ==
    [][UnrollStep =>
        LET loop == Last(seq_loop_stack)
            L == Len(loop)
            N == loop_num_loops(steps[idx + 1])
            loop_start_seq == Last(loop_start_seq_num_stack)
            loop_end_seq == seq_num
            parent == Last(Front(seq_loop_stack))
            after == Last(seq_loop_stack')
        IN
        \A i \in 1..N, j \in 1..L :
            loop[j]["type"] = "Loop" =>
                after[Len(parent) + i * L + j]["ctrl_seq"] =
                    IF loop_start_seq <= loop[j]["ctrl_seq"] /\ loop[j]["ctrl_seq"] <= loop_end_seq
                    THEN loop[j]["ctrl_seq"] + i * L
                    ELSE loop[j]["ctrl_seq"]]_vars

\* this step of Pass 1 takes the AdvCycle step idx + 1
Pass1AdvCycleStep ==
    /\ InPass1
    /\ step_type_at(idx) = "AdvCycle"
    /\ idx' = idx + 1

\* the AdvCycle step idx + 1 is the last step before a Loop step and its
\* loop is not yet to be unrolled
AdvCycleDeferred ==
    /\ IsLoop(steps[idx + 2].StepType)
    /\ ~Last(loop_will_unroll_stack)

\* C19 (as the code has it): in Pass 1 an AdvCycle step that is deferred
\* counts no record and leaves the will_unroll flag of its loop as it is;
\* an AdvCycle step that is not deferred sets the will_unroll flag of its
\* loop and counts 2 records for it.
C19_AdvCycleSizing ==
    [][Pass1AdvCycleStep =>
        /\ Len(loop_seq_count_stack') = Len(loop_seq_count_stack)
        /\ Front(loop_seq_count_stack') = Front(loop_seq_count_stack)
        /\ Front(loop_will_unroll_stack') = Front(loop_will_unroll_stack)
        /\ IF AdvCycleDeferred
           THEN /\ Last(loop_seq_count_stack') = Last(loop_seq_count_stack)
                /\ curr_seq_num' = curr_seq_num
                /\ Last(loop_will_unroll_stack') = FALSE
                /\ adv_cycle_ignore_status_by_idx'[idx] = TRUE
           ELSE /\ Last(loop_seq_count_stack') = Last(loop_seq_count_stack) + 2
                /\ curr_seq_num' = curr_seq_num + 2
                /\ Last(loop_will_unroll_stack') = TRUE
                /\ adv_cycle_ignore_status_by_idx'[idx] = FALSE]_vars

\* Pass 1 has just deferred the AdvCycle step idx, the last step of a loop
\* with records counted before it
C19_Witness ==
    /\ pc = "pass1"
    /\ idx >= 1
    /\ steps[idx].StepType = "AdvCycle"
    /\ (idx - 1) \in DOMAIN adv_cycle_ignore_status_by_idx
    /\ adv_cycle_ignore_status_by_idx[idx - 1]
    /\ Last(loop_seq_count_stack) >= 1
    /\ ~Last(loop_will_unroll_stack)

\* C19: in Pass 1 every AdvCycle step, deferred or not, counts 2 records
\* for its loop, and one that is not deferred sets the will_unroll flag of
\* its loop.
C19_EveryAdvCycleCountsTwo ==
    [][Pass1AdvCycleStep =>
        /\ Last(loop_seq_count_stack') = Last(loop_seq_count_stack) + 2
        /\ ~AdvCycleDeferred => Last(loop_will_unroll_stack') = TRUE]_vars

\* the Do step that the Loop step k closes
MatchingDo(k) == Last(OpenDoSteps(k - 1))

\* the body of the loop closed by the Loop step k has no Do step, and it is
\* empty or its last step is its only AdvCycle step
NativeLoop(k) ==
    LET body == (MatchingDo(k) + 1)..(k - 1) IN
    /\ \A j \in body : ~IsDo(steps[j].StepType)
    /\ \/ body = {}
       \/ /\ steps[k - 1].StepType = "AdvCycle"
          /\ \A j \in body \ {k - 1} : steps[j].StepType # "AdvCycle"

\* this step of Pass 2 closes the loop of the Loop step idx + 1
CloseLoopStep ==
    /\ InPass2
    /\ IsLoop(step_type_at(idx))
    /\ idx' = idx + 1

\* C20: the loop closed by a Loop step is not unrolled if and only if its
\* body has no Do step and is empty or ends with its only AdvCycle step.
\* Pass 1 decides so, and Pass 2 closes such a loop with the body records
\* and one Loop record at the sequence number of the Loop step, and every
\* other loop with the body records and their copies.
C20_NativeLoopIffAdvCycleLast ==
    /\ [](\A i \in DOMAIN loop_unroll_status_by_idx :
             OpenDoSteps(i) # <<>> => (loop_unroll_status_by_idx[i] <=> ~NativeLoop(i + 1)))
    /\ [][CloseLoopStep =>
            LET loop == Last(seq_loop_stack)
                L == Len(loop)
                N == loop_num_loops(steps[idx + 1])
                parent == Last(Front(seq_loop_stack))
                after == Last(seq_loop_stack')
            IN
            IF NativeLoop(idx + 1)
            THEN /\ Len(after) = Len(parent) + L + 1
                 /\ SubSeq(after, 1, Len(parent) + L) = parent \o loop
                 /\ Last(after)["type"] = "Loop"
                 /\ Last(after)["Ns"] = seq_num
                 /\ Last(after)["loop_repeat"] = N
            ELSE /\ Len(after) = Len(parent) + L * (N + 1)
                 /\ \A i \in 0..N, j \in 1..L :
                       /\ after[Len(parent) + i * L + j]["Ns"] = loop[j]["Ns"] + i * L
                       /\ after[Len(parent) + i * L + j]["type"] = loop[j]["type"]
                       /\ after[Len(parent) + i * L + j]["loop_repeat"] = loop[j]["loop_repeat"]]_vars

\* a loop of a Rest step and an AdvCycle step has been closed with a Loop
\* record
C20_Witness ==
    /\ NativeLoopClosed
    /\ idx >= 4
    /\ steps[idx - 1].StepType = "AdvCycle"
    /\ IsPhysical(steps[idx - 2])
    /\ IsDo(steps[idx - 3].StepType)
    /\ Last(Last(seq_loop_stack))["type"] = "Loop"

\* Pass 1 has ended without raising
Pass1Over == pre_computed_seq_count >= 0

\* the results of Pass 1 are complete: a sequence number for every step
\* number, END_SEQ_NUM for the End step, and a decision for every Loop step
\* and every AdvCycle step
Pass1Results ==
    /\ DOMAIN seq_num_by_step_num = 1..num_steps
    /\ seq_num_by_step_num[num_steps] = END_SEQ_NUM
    /\ \A i \in 0..(num_steps - 2) :
          /\ IsLoop(step_type_at(i)) => i \in DOMAIN loop_unroll_status_by_idx
          /\ step_type_at(i) = "AdvCycle" => i \in DOMAIN adv_cycle_ignore_status_by_idx

\* C21: no record exists while Pass 1 runs; once it is over the map and
\* the decisions are complete, and no step of Pass 2 or of the serializer
\* changes them; the goto of a compiled step to a later step is the map's
\* value for that step.
C21_PassesInSequence ==
    /\ [](~Pass1Over => (seq_loop_stack = <<>> /\ seqs = None /\ pc \in {"pass1", "raised"}))
    /\ [](Pass1Over => Pass1Results)
    /\ [][Pass1Over => UNCHANGED <<seq_num_by_step_num, loop_unroll_status_by_idx,
                                   adv_cycle_ignore_status_by_idx>>]_vars
    /\ [](StepCompiled =>
            \A k \in 1..Len(steps[idx].Ends) :
                steps[idx].Ends[k].Step > idx =>
                    Last(Last(seq_loop_stack))[LimField(k, "_seq")] =
                        seq_num_by_step_num[steps[idx].Ends[k].Step])

\* a step has been compiled with a goto to a step after the next one and
\* before the End step, for which no record exists yet
C21_Witness ==
    /\ StepCompiled
    /\ Len(steps[idx].Ends) >= 1
    /\ steps[idx].Ends[1].Step > idx + 1
    /\ steps[idx].Ends[1].Step < num_steps
    /\ Last(Last(seq_loop_stack))["lim1_seq"] = seq_num_by_step_num[steps[idx].Ends[1].Step]
    /\ Last(Last(seq_loop_stack))["lim1_seq"] > Last(Last(seq_loop_stack))["Ns"] + 1

\* the records generated so far, in the order of their lists: the lists of
\* the open loops from the outermost on, or the returned list
Generated == Concat(seq_loop_stack) \o seqs

IsPrefix(s, t) == Len(s) <= Len(t) /\ SubSeq(t, 1, Len(s)) = s

\* C22: a step never changes a record generated before it: the records
\* after the step are the records before it, followed by those the step
\* adds; so unrolling a loop keeps the records generated before its Do and
\* its body records and adds the copies after them.
C22_RecordsImmutable ==
    /\ [][IsPrefix(Generated, Generated')]_vars
    /\ [][UnrollStep =>
            LET loop == Last(seq_loop_stack)
                parent == Last(Front(seq_loop_stack))
            IN
            /\ Front(seq_loop_stack') = Front(Front(seq_loop_stack))
            /\ IsPrefix(parent \o loop, Last(seq_loop_stack'))]_vars

\* a loop with records before its Do has been unrolled with a copy or more
C22_Witness ==
    /\ pc = "pass2"
    /\ idx >= 1
    /\ IsLoop(steps[idx].StepType)
    /\ loop_unroll_status_by_idx[idx - 1]
    /\ loop_num_loops(steps[idx]) >= 1
    /\ seq_num_by_step_num[MatchingDo(idx)] >= 1
    /\ seq_num_by_step_num[idx] > seq_num_by_step_num[MatchingDo(idx)]
    /\ Len(Last(seq_loop_stack)) >= 3

TimeReturned == pc = "returned" /\ call.fn = "_convert_time"

\* The duration of the string, in eighths of a second.
duration_eighths(time_str) == float_eighths(time_str[1]) * 60 * 60 + float_eighths(time_str[2]) * 60 + float_eighths(time_str[3])

\* The value and unit that denote the duration exactly, in the unit of the
\* rule: three decimals hold every eighth.
exact_time(time_str) ==
    IF float_eighths(time_str[2]) = 0 /\ float_eighths(time_str[3]) = 0 THEN <<format_3f_eighths(float_eighths(time_str[1])), "hr">>
    ELSE IF float_eighths(time_str[3]) = 0 THEN <<format_3f_eighths(float_eighths(time_str[1]) * 60 + float_eighths(time_str[2])), "mn">>
    ELSE IF float_eighths(time_str[3]) % 8 = 0 THEN <<format_3f_eighths(duration_eighths(time_str)), "s">>
    ELSE <<format_3f_ms(duration_eighths(time_str)), "ms">>

\* C23 : for every duration triple whose millisecond count is below 1e10 the
\* time converter returns the value and unit that denote the duration
\* exactly (hours when minutes and seconds are zero, minutes when seconds
\* are zero, whole seconds when the seconds have no fraction, milliseconds
\* otherwise), with no fractional hour or minute truncated.
C23_TimeExact == (TimeReturned /\ duration_eighths(call.arg) < 8 * biologic_max_time_num_in_seconds) => converted = exact_time(call.arg)

AmpsReturned == pc = "returned" /\ call.fn = "_convert_amps"

\* The string "0.000000012".
TwelveNanoAmps == [int |-> <<0>>, frac |-> Zeros(7) \o <<1, 2>>, exp |-> <<>>]

\* C24 : the current converter applied to the value string "0.000000012"
\* returns the value "12.000" with the unit "nA".
C24_ExampleIsNanoAmps == (AmpsReturned /\ call.arg = TwelveNanoAmps) => converted = <<"12.000", "nA">>

C24_Witness == AmpsReturned /\ call.arg = TwelveNanoAmps /\ get_decimal_sig_figs(call.arg) = 9

\* C24 as stated: the same call returns the value "12.000" with the unit
\* "pA".
C24_ExampleIsPicoAmps == (AmpsReturned /\ call.arg = TwelveNanoAmps) => converted = <<"12.000", "pA">>

\* The decimal value of the string, and whether it is at least 1 with at
\* most 3 decimals in the unit of exponent k.
decimal_value(val_str) == [digits |-> val_str.int \o val_str.frac, point |-> Len(val_str.int) + (IF val_str.exp = <<>> THEN 0 ELSE val_str.exp[1])]

Qualifies(val_str, k) == ~less_than_power_of_ten(decimal_value(val_str), -k) /\ get_decimal_sig_figs(val_str) - k <= 3

ladder_unit(val_str) == IF Qualifies(val_str, 0) THEN "A" ELSE IF Qualifies(val_str, 3) THEN "mA" ELSE IF Qualifies(val_str, 6) THEN "uA" ELSE IF Qualifies(val_str, 9) THEN "nA" ELSE "pA"

UnitFollowsLadder == AmpsReturned => converted[2] = ladder_unit(call.arg)

\* The returned text is the decimal value in the returned unit, and the
\* three decimals hold all of its digits.
NoDigitLost == LET exact == times_power_of_ten(decimal_value(call.arg), unit_exponent(converted[2])) IN converted[1] = format_3f(exact) /\ \A i \in 1..Len(beyond_thousandths(exact)) : beyond_thousandths(exact)[i] = 0

\* C25 : the current converter returns the largest unit of the ladder
\* A > mA > uA > nA > pA in which the value is at least 1 and the detected
\* precision at most 3 digits, pA when there is none; a value of at most 15
\* fractional digits is rendered with 3 decimals and loses no digit.
C25_LadderUnitNoDigitLost == AmpsReturned => (converted[2] = ladder_unit(call.arg) /\ (get_decimal_sig_figs(call.arg) <= 15 => NoDigitLost))

GotoFields == LimSeqFields \cup {"ctrl_seq"}

\* C26 : in every returned list every lim1_seq, lim2_seq, lim3_seq and
\* every loop-control target is non-negative and either 9999 or at most the
\* number of records of the list, unrolled copies included.
C26_GotosInRange ==
    SeqsReturned =>
        \A i \in 1..Len(seqs) : \A f \in GotoFields :
            /\ seqs[i][f] >= 0
            /\ seqs[i][f] = END_SEQ_NUM \/ seqs[i][f] <= Len(seqs)

\* A returned list with an unrolled loop that holds a goto to the end, a
\* goto to the record after the list's last and a Loop record whose
\* target is not the first record.
C26_Witness ==
    /\ pc = "returned"
    /\ NumUnrolled >= 1
    /\ \E i \in 1..Len(seqs) : seqs[i]["lim1_seq"] = END_SEQ_NUM
    /\ \E i \in 1..Len(seqs) : \E f \in LimSeqFields : seqs[i][f] = Len(seqs)
    /\ \E i \in 1..Len(seqs) : seqs[i]["type"] = "Loop" /\ seqs[i]["ctrl_seq"] > 0

RECURSIVE Sum(_)
Sum(counts) == IF counts = <<>> THEN 0 ELSE counts[1] + Sum(Tail(counts))

\* C27 : after every step of Pass 1 the running counter is the sum of the
\* counts of all contexts on the stack, and the two stacks of Pass 1 have
\* the same depth, the number of open Do steps plus one.
C27_Pass1CounterAndDepth ==
    pc = "pass1" =>
        /\ curr_seq_num = Sum(loop_seq_count_stack)
        /\ Len(loop_seq_count_stack) = Len(loop_will_unroll_stack)
        /\ Len(loop_seq_count_stack) = Len(OpenDoSteps(idx)) + 1

\* Pass 1 has just closed an unrolled inner loop: the outer loop is still
\* open and has taken over the count of the body and its copies.
C27_Witness ==
    /\ pc = "pass1"
    /\ idx >= 1
    /\ IsLoop(steps[idx].StepType)
    /\ loop_unroll_status_by_idx[idx - 1]
    /\ loop_num_loops(steps[idx]) >= 1
    /\ Len(loop_seq_count_stack) = 2
    /\ loop_seq_count_stack[2] >= 3

\* The Do steps less the Loop steps among the first k steps.  A Loop step
\* has no Do open where the difference falls below 0; a Do step is still
\* open at the End step when it ends above 0.
Balance(k) == Cardinality({j \in 1..k : IsDo(steps[j].StepType)}) - Cardinality({j \in 1..k : IsLoop(steps[j].StepType)})

UnmatchedLoop(k) == IsLoop(steps[k].StepType) /\ Balance(k) < 0

UnclosedDo == Balance(num_steps - 1) > 0 /\ \A k \in StepNums : Balance(k) >= 0

Unmatched == (\E k \in StepNums : UnmatchedLoop(k)) \/ UnclosedDo

\* C28 : a step list whose Do and Loop steps are not matched never yields
\* an output: the conversion stays in Pass 1, where no record exists, and
\* ends there with an exception.
C28_UnmatchedFailsInPass1 ==
    Unmatched =>
        /\ pc \in {"pass1", "raised"}
        /\ ~Pass1Over
        /\ seq_loop_stack = <<>> /\ seqs = None /\ ret = None
        /\ pc = "raised" => raised.exc \in {"IndexError", "AssertionError"}

\* Pass 1 has sized two steps or more of a list whose Do is never closed,
\* and the assertion after it has failed.
C28_Witness ==
    /\ pc = "raised"
    /\ raised.exc = "AssertionError"
    /\ UnclosedDo
    /\ curr_seq_num >= 2

\* Step k sets the goto lower bound: a Do step, a Loop step or an AdvCycle
\* step that Pass 1 did not defer.
SetsLowerBound(k) ==
    \/ IsDo(steps[k].StepType)
    \/ IsLoop(steps[k].StepType)
    \/ steps[k].StepType = "AdvCycle" /\ ~adv_cycle_ignore_status_by_idx[k - 1]

\* C29 : during Pass 2 the goto lower bound never decreases: every Do,
\* every Loop and every AdvCycle step that is not deferred sets it to its
\* step number, no other step changes it, and nothing restores it to an
\* outer loop's start; a list with a physical step whose goto lies below a
\* Loop or non-deferred AdvCycle step before it returns nothing.
C29_GotoLowerBound ==
    /\ [][pc = "pass2" => step_num_goto_lower_bound' >= step_num_goto_lower_bound]_vars
    /\ [][(InPass2 /\ idx' = idx + 1) =>
            step_num_goto_lower_bound' =
                IF SetsLowerBound(step_num) THEN step_num ELSE step_num_goto_lower_bound]_vars
    /\ [](SeqsReturned =>
            \A j \in StepNums : \A k \in 1..(j - 1) :
                (IsPhysical(steps[j]) /\ ~IsDo(steps[k].StepType) /\ SetsLowerBound(k)) =>
                    \A e \in 1..Len(steps[j].Ends) : steps[j].Ends[e].Step >= k)

\* A step inside an open loop, after a closed inner loop, has failed on a
\* goto to a step of the open loop that lies before the inner Loop step.
C29_Witness ==
    /\ pc = "raised"
    /\ raised.msg = GotoMsg
    /\ pre_computed_seq_count >= 0
    /\ IsPhysical(steps[idx + 1])
    /\ OpenDoSteps(idx + 1) # <<>>
    /\ step_num_goto_lower_bound > Last(OpenDoSteps(idx + 1))
    /\ IsLoop(steps[step_num_goto_lower_bound].StepType)
    /\ \E e \in 1..Len(steps[idx + 1].Ends) :
          /\ steps[idx + 1].Ends[e].Step >= Last(OpenDoSteps(idx + 1))
          /\ steps[idx + 1].Ends[e].Step < step_num_goto_lower_bound

LimSeqField(slot) == CASE slot = 1 -> "lim1_seq" [] slot = 2 -> "lim2_seq" [] slot = 3 -> "lim3_seq"

\* C30 : in every record of a returned list every limit slot that no end
\* entry filled (a slot above lim_nb, and the three slots of a Loop record)
\* has the goto Ns + 1, in the copies made by unrolling as well.
C30_UnfilledSlotsGoToNext ==
    SeqsReturned =>
        \A i \in 1..Len(seqs) : \A slot \in 1..3 :
            (slot > seqs[i]["lim_nb"] \/ seqs[i]["type"] = "Loop") =>
                seqs[i][LimSeqField(slot)] = seqs[i]["Ns"] + 1

\* A returned list of two unrolled loops, one inside the other, with more
\* records than steps: copies of a Loop record, and a record of one limit.
C30_Witness ==
    /\ pc = "returned"
    /\ NumUnrolled >= 2
    /\ \E k \in StepNums : Len(OpenDoSteps(k)) = 2
    /\ Len(seqs) > num_steps
    /\ \E i \in 1..Len(seqs) : \E j \in 1..Len(seqs) :
          /\ i + 1 < j
          /\ seqs[i]["type"] = "Loop" /\ seqs[j]["type"] = "Loop"
          /\ seqs[i]["loop_repeat"] = seqs[j]["loop_repeat"]
    /\ \E i \in 1..Len(seqs) : seqs[i]["lim_nb"] = 1

====
